---- MODULE Spec2Model ----
(***************************************************************************)
(* ServerSensei: the snapshot store, the diff engine, the insight          *)
(* generator, the local and remote rate trackers and the connection        *)
(* switching of SystemMonitorApp, as a state machine.                      *)
(*                                                                         *)
(* Python values are modelled as follows.  A dict with fixed keys is a     *)
(* record, a dict keyed by metric name is a function from strings, a list  *)
(* or tuple is a sequence, None in a slot that otherwise holds a tuple or  *)
(* a datetime is the empty sequence (both are falsy in Python), a float    *)
(* produced by "/" is an exact fraction in lowest terms.  Time is counted  *)
(* in whole seconds.                                                       *)
(***************************************************************************)
EXTENDS Integers, Sequences, FiniteSets, TLC

VARIABLES
    now,               \* datetime.now(), the wall clock
    file,              \* system_snapshot.json in the working directory
    monitor,           \* SystemMonitorApp.monitor: "local" or "remote"
    exporter_monitor,  \* SystemMonitorApp.pdf_exporter.monitor
    ssh,               \* SSHConnectionManager: client, connected, host, connection_type
    local_net,         \* SystemMonitor.net_io_start / last_check_time
    remote_net,        \* RemoteSystemMonitor.net_io_start / last_check_time
    last_net,          \* history: the last get_network_activity call of update_dashboard
    last_cmp,          \* history: the last load_comparison_data / export_to_pdf
    last_saved,        \* history: the argument of the last _save_snapshot whose file is still in place
    switched,          \* history: a target switch happened and no observation followed yet
    observed,          \* history: which monitors have returned a network sample since construction
    d_old, d_new, d_out, \* inputs and output of the pure diff specification
    call,              \* the last call of a function applied on its own, with its arguments
    returned,          \* what that call returned
    ssh_hist           \* history of the SSHConnectionManager: every event logged, the sessions
                       \* opened and never closed, the number of connect attempts

vars == <<now, file, monitor, exporter_monitor, ssh, local_net, remote_net,
          last_net, last_cmp, last_saved, switched, observed, d_old, d_new, d_out,
          call, returned, ssh_hist>>

appVars == <<now, file, monitor, exporter_monitor, ssh, local_net, remote_net,
             last_net, last_cmp, last_saved, switched, observed, ssh_hist>>

callVars == <<call, returned>>

diffVars == <<d_old, d_new, d_out>>

(***************************************************************************)
(* Bounds of the model.                                                    *)
(***************************************************************************)
\* the clock runs over 0..MaxTime
MaxTime == 2

\* connect_remote is followed for MaxConnects attempts
MaxConnects == 2

(***************************************************************************)
(* Fractions: the result of Python's true division of two integers.        *)
(***************************************************************************)
Abs(x) == IF x < 0 THEN -x ELSE x

RECURSIVE GCD(_, _)
GCD(a, b) == IF b = 0 THEN a ELSE GCD(b, a % b)

\* a / b for b > 0, in lowest terms
Ratio(a, b) ==
    LET g == GCD(Abs(a), b)
    IN  [num |-> a \div g, den |-> b \div g]

\* the literal 0 (0 == 0.0 in Python)
Zero == [num |-> 0, den |-> 1]

(***************************************************************************)
(* SSHConnectionManager (ssh_manager.py).  The client is <<>> (None) or a  *)
(* one-element sequence holding the paramiko client: the host it was       *)
(* opened for and whether its connect() succeeded.  An entry of the        *)
(* connection log is its event and its details (the host, or the message   *)
(* of verify_host_key); its timestamp is left out.                         *)
(***************************************************************************)
Hosts == {"hostA", "hostB"}

NoHost == "None"

\* the keys a server can present
ServerKeys == {"k1", "k2"}

\* hashlib.sha256(key.asbytes()).hexdigest()
KeyHash(key) == <<"sha256", key>>

\* how connect() ends: it returns, or raises AuthenticationException,
\* SSHException, or another exception (socket.timeout, socket.gaierror)
ConnectOutcomes == {"ok", "auth", "ssh", "error"}

\* the connection log keeps its last 100 entries
LogCapacity == 100

\* known_hosts: the host keys of the system's known_hosts file, which every
\* new client loads (load_system_host_keys) and the program never writes
SSHInit ==
    [client |-> <<>>, connected |-> FALSE, host |-> NoHost, connection_type |-> "local",
     host_keys |-> <<>>, connection_log |-> <<>>, known_hosts |-> <<>>]

\* log_connection_event keeping the oldest LogCapacity entries
log_connection_event_keeps_oldest(connection_log, event_type, details) ==
    LET appended == Append(connection_log, [event |-> event_type, details |-> details])
    IN  IF Len(appended) > LogCapacity
        THEN SubSeq(appended, 1, LogCapacity)
        ELSE appended

\* log_connection_event: append, then keep the last LogCapacity entries
log_connection_event(connection_log, event_type, details) ==
    LET appended == Append(connection_log, [event |-> event_type, details |-> details])
    IN  IF Len(appended) > LogCapacity
        THEN SubSeq(appended, Len(appended) - LogCapacity + 1, Len(appended))
        ELSE appended

\* verify_host_key: a host not seen before has its digest recorded; a host
\* seen before is verified iff the digest is the recorded one, and the
\* recorded digest stays
verify_host_key(host_keys, hostname, key) ==
    IF hostname \in DOMAIN host_keys
    THEN [verified |-> host_keys[hostname] = KeyHash(key), host_keys |-> host_keys]
    ELSE [verified |-> TRUE, host_keys |-> (hostname :> KeyHash(key)) @@ host_keys]

\* how client.connect() ends.  outcome is how it would end for a host that
\* known_hosts does not hold.  The key the server presents is compared with
\* the key known_hosts holds for the host once the transport has started,
\* before authentication: a different key raises BadHostKeyException, an
\* SSHException
ConnectResult(s, h, outcome, key) ==
    IF /\ outcome \in {"ok", "auth"}
       /\ h \in DOMAIN s.known_hosts
       /\ s.known_hosts[h] # key
    THEN "ssh"
    ELSE outcome

\* the events one connect_with_password logs, in order
ConnectEvents(s, h, outcome, key) ==
    <<[event |-> "connection_attempt", details |-> h]>> \o
    ( IF ConnectResult(s, h, outcome, key) = "ok"
      THEN ( IF verify_host_key(s.host_keys, h, key).verified THEN <<>>
             ELSE <<[event |-> "security_warning", details |-> "Host key mismatch"]>> )
           \o <<[event |-> "connection_success", details |-> h]>>
      ELSE IF ConnectResult(s, h, outcome, key) = "auth"
      THEN <<[event |-> "authentication_failed", details |-> h]>>
      ELSE IF ConnectResult(s, h, outcome, key) = "ssh"
      THEN <<[event |-> "connection_failed", details |-> h]>>
      ELSE <<[event |-> "connection_error", details |-> h]>> )

RECURSIVE LogAll(_, _, _)
LogAll(connection_log, events, i) ==
    IF i > Len(events) THEN connection_log
    ELSE LogAll(log_connection_event(connection_log, events[i].event, events[i].details),
                events, i + 1)

\* connect_with_password / connect_with_key: the client is replaced before
\* connect() is tried; host key, flags and host change only when connect()
\* succeeds; every path logs
SSHConnect(s, h, outcome, key) ==
    LET logged == LogAll(s.connection_log, ConnectEvents(s, h, outcome, key), 1)
    IN  IF ConnectResult(s, h, outcome, key) = "ok"
        THEN [client |-> <<[host |-> h, open |-> TRUE]>>, connected |-> TRUE,
              host |-> h, connection_type |-> "remote",
              host_keys |-> verify_host_key(s.host_keys, h, key).host_keys,
              connection_log |-> logged, known_hosts |-> s.known_hosts]
        ELSE [s EXCEPT !.client = <<[host |-> h, open |-> FALSE]>>,
                       !.connection_log = logged]

\* disconnect: the held client is closed and dropped, the flags are reset
SSHDisconnect(s) ==
    [s EXCEPT !.client = <<>>, !.connected = FALSE, !.host = NoHost,
              !.connection_type = "local"]

\* the record kept of one connect: the host, how connect() would end for a
\* host that known_hosts does not hold (outcome) and how it ended (result),
\* the key the server presented, whether the host had a recorded digest and
\* which, whether a session was open when the connect began, the connection
\* log before and after, and the manager's flags after
NoConnect ==
    [host |-> NoHost, outcome |-> "none", result |-> "none", key |-> "none",
     known |-> FALSE, recorded |-> <<>>, was_open |-> FALSE,
     before |-> <<>>, after |-> <<>>, connected |-> FALSE, connected_to |-> NoHost,
     host_keys |-> <<>>]

SshHistInit ==
    [full_log |-> <<>>, logged_before |-> 0, unreferenced |-> {}, connects |-> 0,
     last |-> NoConnect]

\* the client that connect_with_password replaces is never closed by the
\* manager; collected: whether the runtime has finalized (and so closed) the
\* dropped paramiko client
SshHistConnect(hist, s, h, outcome, key, collected) ==
    LET was_open == s.client # <<>> /\ s.client[1].open
    IN  [full_log     |-> hist.full_log \o ConnectEvents(s, h, outcome, key),
         logged_before |-> Len(hist.full_log),
         unreferenced |-> IF was_open /\ ~collected
                          THEN hist.unreferenced \cup {s.client[1].host}
                          ELSE hist.unreferenced,
         connects     |-> hist.connects + 1,
         last         |-> [host |-> h, outcome |-> outcome,
                           result |-> ConnectResult(s, h, outcome, key), key |-> key,
                           known |-> h \in DOMAIN s.host_keys,
                           recorded |-> IF h \in DOMAIN s.host_keys
                                        THEN <<s.host_keys[h]>> ELSE <<>>,
                           was_open |-> was_open,
                           before |-> s.connection_log,
                           after |-> SSHConnect(s, h, outcome, key).connection_log,
                           connected |-> SSHConnect(s, h, outcome, key).connected,
                           connected_to |-> SSHConnect(s, h, outcome, key).host,
                           host_keys |-> SSHConnect(s, h, outcome, key).host_keys]]

is_remote(s) == s.connection_type = "remote" /\ s.connected

(***************************************************************************)
(* Text.  What the remote side writes is a sequence of tokens: a word      *)
(* that int() accepts, a word that it rejects, a run of white space within *)
(* a line, or a line break.  Among the words int() rejects, a decimal      *)
(* number ("1.5", val in tenths) and a word of digits and several dots     *)
(* ("1.2.3") are told apart from the others.                               *)
(***************************************************************************)
IntTok(v) == [isint |-> TRUE, val |-> v]
BadTok == [isint |-> FALSE, val |-> 0]
DecTok(v) == [isint |-> FALSE, val |-> v, form |-> "decimal"]
DotsTok == [isint |-> FALSE, val |-> 0, form |-> "dots"]
Blank == [blank |-> TRUE]
Newline == [newline |-> TRUE]

IsSpace(tok) == tok = Blank \/ tok = Newline

\* str.strip(): the white space at both ends goes
RECURSIVE lstrip(_)
lstrip(text) ==
    IF text # <<>> /\ IsSpace(Head(text)) THEN lstrip(Tail(text)) ELSE text

RECURSIVE rstrip(_)
rstrip(text) ==
    IF text # <<>> /\ IsSpace(text[Len(text)])
    THEN rstrip(SubSeq(text, 1, Len(text) - 1))
    ELSE text

strip(text) == lstrip(rstrip(text))

\* str.split(): the words between the runs of white space
RECURSIVE split(_)
split(text) ==
    IF text = <<>> THEN <<>>
    ELSE IF IsSpace(Head(text)) THEN split(Tail(text))
    ELSE <<Head(text)>> \o split(Tail(text))

\* the tokens of text before its first line break, from index i on
RECURSIVE FirstLine(_, _)
FirstLine(text, i) ==
    IF i > Len(text) \/ text[i] = Newline THEN <<>>
    ELSE <<text[i]>> \o FirstLine(text, i + 1)

\* str.split('\n'): the lines between the line breaks
RECURSIVE split_lines(_)
split_lines(text) ==
    LET line == FirstLine(text, 1)
    IN  IF Len(line) = Len(text) THEN <<line>>
        ELSE <<line>> \o split_lines(SubSeq(text, Len(line) + 2, Len(text)))

\* s.replace('.', '').isdigit(): digits, with dots or without
DigitsAndDots(tok) ==
    \/ tok.isint /\ tok.val >= 0
    \/ "form" \in DOMAIN tok

\* float(s) accepts the word
FloatAccepts(tok) ==
    \/ tok.isint
    \/ "form" \in DOMAIN tok /\ tok.form = "decimal"

\* float(s) of a word it accepts
FloatOf(tok) == IF tok.isint THEN Ratio(tok.val, 1) ELSE Ratio(tok.val, 10)

\* what the remote side does with a command: it writes to stdout and stderr,
\* or the channel fails (exec_command or read raises)
Response(stdout, stderr) == [raises |-> FALSE, stdout |-> stdout, stderr |-> stderr]

TransportFailure == [raises |-> TRUE, stdout |-> <<>>, stderr |-> <<>>]

\* the error half of the pair execute_command returns
NotConnectedError == [kind |-> "Not connected to remote server"]
CommandExecutionError == [kind |-> "Command execution error"]
StderrError(text) == [kind |-> "stderr", text |-> text]

\* an execute_command that asks only whether there is a client
execute_command_any_client(s, resp) ==
    IF s.client = <<>>
    THEN [output |-> <<>>, error |-> <<NotConnectedError>>, issued |-> FALSE]
    ELSE IF ~s.client[1].open \/ resp.raises
    THEN [output |-> <<>>, error |-> <<CommandExecutionError>>, issued |-> TRUE]
    ELSE LET output == strip(resp.stdout)
             error  == strip(resp.stderr)
         IN  IF error # <<>>
             THEN [output |-> <<>>, error |-> <<StderrError(error)>>, issued |-> TRUE]
             ELSE [output |-> <<output>>, error |-> <<>>, issued |-> TRUE]

\* an execute_command that fails only when stdout is empty
execute_command_prefers_stdout(s, resp) ==
    IF ~s.connected \/ s.client = <<>>
    THEN [output |-> <<>>, error |-> <<NotConnectedError>>, issued |-> FALSE]
    ELSE IF ~s.client[1].open \/ resp.raises
    THEN [output |-> <<>>, error |-> <<CommandExecutionError>>, issued |-> TRUE]
    ELSE LET output == strip(resp.stdout)
             error  == strip(resp.stderr)
         IN  IF error # <<>> /\ output = <<>>
             THEN [output |-> <<>>, error |-> <<StderrError(error)>>, issued |-> TRUE]
             ELSE [output |-> <<output>>, error |-> <<>>, issued |-> TRUE]

\* execute_command: (output, error), and whether exec_command was called.
\* exec_command raises on a client whose connect() did not succeed.
execute_command(s, resp) ==
    IF ~s.connected \/ s.client = <<>>
    THEN [output |-> <<>>, error |-> <<NotConnectedError>>, issued |-> FALSE]
    ELSE IF ~s.client[1].open \/ resp.raises
    THEN [output |-> <<>>, error |-> <<CommandExecutionError>>, issued |-> TRUE]
    ELSE LET output == strip(resp.stdout)
             error  == strip(resp.stderr)
         IN  IF error # <<>>
             THEN [output |-> <<>>, error |-> <<StderrError(error)>>, issued |-> TRUE]
             ELSE [output |-> <<output>>, error |-> <<>>, issued |-> TRUE]

\* "if output:": neither None nor the empty string
Truthy(output) == output # <<>> /\ output[1] # <<>>

(***************************************************************************)
(* Rate trackers.  Counters are records [bytes_sent, bytes_recv].          *)
(***************************************************************************)
NetCounters ==
    { [bytes_sent |-> 0, bytes_recv |-> 0],
      [bytes_sent |-> 2048, bytes_recv |-> 4096] }

\* the {} a remote getter returns when it has nothing
EmptyDict == [empty |-> TRUE]

NetResult(up, down, sent, recv) ==
    [upload_speed |-> up, download_speed |-> down, bytes_sent |-> sent, bytes_recv |-> recv]

\* SystemMonitor.__init__: the baseline is taken at construction
SystemMonitorInit(c, t) == [net_io_start |-> c, last_check_time |-> t]

\* an upload speed taken from the received counters
LocalUploadFromRecv(st, c, t) ==
    LET time_diff == t - st.last_check_time
    IN  IF time_diff > 0
        THEN Ratio(c.bytes_recv - st.net_io_start.bytes_recv, time_diff)
        ELSE Zero

\* the upload speed SystemMonitor.get_network_activity computes
LocalUpload(st, c, t) ==
    LET time_diff == t - st.last_check_time
    IN  IF time_diff > 0
        THEN Ratio(c.bytes_sent - st.net_io_start.bytes_sent, time_diff)
        ELSE Zero

LocalDownload(st, c, t) ==
    LET time_diff == t - st.last_check_time
    IN  IF time_diff > 0
        THEN Ratio(c.bytes_recv - st.net_io_start.bytes_recv, time_diff)
        ELSE Zero

\* a tracker that keeps its baseline when no time has passed
LocalGetNetworkActivityKeepsBaseline(st, c, t) ==
    [state  |-> IF t - st.last_check_time > 0
                THEN [net_io_start |-> c, last_check_time |-> t]
                ELSE st,
     result |-> NetResult(LocalUpload(st, c, t), LocalDownload(st, c, t),
                          c.bytes_sent, c.bytes_recv)]

\* SystemMonitor.get_network_activity: the new tracker state and the result
LocalGetNetworkActivity(st, c, t) ==
    [state  |-> [net_io_start |-> c, last_check_time |-> t],
     result |-> NetResult(LocalUpload(st, c, t), LocalDownload(st, c, t),
                          c.bytes_sent, c.bytes_recv)]

\* RemoteSystemMonitor.__init__: net_io_start = None, last_check_time = None
RemoteMonitorInit == [net_io_start |-> <<>>, last_check_time |-> <<>>]

\* an upload speed that counts from zero when there is no baseline
RemoteUploadSinceZero(st, recv, sent, t) ==
    IF st.net_io_start # <<>> /\ st.last_check_time # <<>>
    THEN LET time_diff == t - st.last_check_time[1]
         IN  IF time_diff > 0
             THEN Ratio(sent - st.net_io_start[2], time_diff)
             ELSE Zero
    ELSE Ratio(sent, 1)

\* net_io_start is the tuple (recv, sent)
RemoteUpload(st, recv, sent, t) ==
    IF st.net_io_start # <<>> /\ st.last_check_time # <<>>
    THEN LET time_diff == t - st.last_check_time[1]
         IN  IF time_diff > 0
             THEN Ratio(sent - st.net_io_start[2], time_diff)
             ELSE Zero
    ELSE Zero

RemoteDownload(st, recv, sent, t) ==
    IF st.net_io_start # <<>> /\ st.last_check_time # <<>>
    THEN LET time_diff == t - st.last_check_time[1]
         IN  IF time_diff > 0
             THEN Ratio(recv - st.net_io_start[1], time_diff)
             ELSE Zero
    ELSE Zero

\* a parser that stores the counter it has read before it reads the next one
RemoteGetNetworkActivityStoresEarly(st, s, resp, t) ==
    IF ~is_remote(s) THEN [state |-> st, result |-> EmptyDict]
    ELSE LET output == execute_command(s, resp).output
         IN  IF ~Truthy(output) THEN [state |-> st, result |-> EmptyDict]
             ELSE LET parts == split(output[1])
                  IN  IF ~parts[1].isint
                      THEN [state |-> st, result |-> EmptyDict]
                      ELSE IF Len(parts) < 2 \/ ~parts[2].isint
                      THEN [state  |-> [net_io_start |-> <<parts[1].val, 0>>,
                                        last_check_time |-> <<t>>],
                            result |-> EmptyDict]
                      ELSE LET current_recv == parts[1].val
                               current_sent == parts[2].val
                           IN  [state  |-> [net_io_start |-> <<current_recv, current_sent>>,
                                            last_check_time |-> <<t>>],
                                result |-> NetResult(
                                    RemoteUpload(st, current_recv, current_sent, t),
                                    RemoteDownload(st, current_recv, current_sent, t),
                                    current_sent, current_recv)]

\* the branch on which get_network_activity returns {}: no session, a command
\* that gave no output (it failed or wrote to stderr), an empty output, or
\* an output that is not two integers; "none" when it returns a result
NetFailure(s, resp) ==
    IF ~is_remote(s) THEN "session"
    ELSE LET r == execute_command(s, resp)
         IN  IF r.output = <<>> THEN "command"
             ELSE IF r.output[1] = <<>> THEN "empty"
             ELSE LET parts == split(r.output[1])
                  IN  IF Len(parts) < 2 \/ ~parts[1].isint \/ ~parts[2].isint
                      THEN "parse" ELSE "none"

\* RemoteSystemMonitor.get_network_activity on the output of the command: the
\* first token is the received count, the second the sent count; anything
\* that does not parse is swallowed by the except and yields {}
RemoteGetNetworkActivity(st, s, resp, t) ==
    IF ~is_remote(s) THEN [state |-> st, result |-> EmptyDict]
    ELSE LET output == execute_command(s, resp).output
         IN  IF ~Truthy(output) THEN [state |-> st, result |-> EmptyDict]
             ELSE LET parts == split(output[1])
                  IN  IF Len(parts) < 2 \/ ~parts[1].isint \/ ~parts[2].isint
                      THEN [state |-> st, result |-> EmptyDict]
                      ELSE LET current_recv == parts[1].val
                               current_sent == parts[2].val
                           IN  [state  |-> [net_io_start |-> <<current_recv, current_sent>>,
                                            last_check_time |-> <<t>>],
                                result |-> NetResult(
                                    RemoteUpload(st, current_recv, current_sent, t),
                                    RemoteDownload(st, current_recv, current_sent, t),
                                    current_sent, current_recv)]

\* RemoteSystemMonitor.get_cpu_usage: float(output), 0 when there is no
\* session, no output or no number; the error of execute_command is dropped
RemoteGetCpuUsage(s, resp) ==
    IF ~is_remote(s) THEN 0
    ELSE LET output == execute_command(s, resp).output
         IN  IF ~Truthy(output) THEN 0
             ELSE IF Len(output[1]) = 1 /\ output[1][1].isint THEN output[1][1].val
             ELSE 0

\* get_memory_info dividing by total without asking whether it is positive:
\* the division by 0 raises inside the try, and the except returns {}
RemoteGetMemoryInfoUnguarded(s, resp) ==
    IF ~is_remote(s) THEN EmptyDict
    ELSE LET output == execute_command(s, resp).output
         IN  IF ~Truthy(output) THEN EmptyDict
             ELSE LET parts == split(output[1])
                  IN  IF \/ ~parts[1].isint
                         \/ Len(parts) > 1 /\ ~parts[2].isint
                         \/ Len(parts) > 2 /\ ~parts[3].isint
                         \/ parts[1].val <= 0
                      THEN EmptyDict
                      ELSE LET total     == parts[1].val
                               used      == IF Len(parts) > 1 THEN parts[2].val ELSE 0
                               available == IF Len(parts) > 2 THEN parts[3].val
                                            ELSE total - used
                           IN  [total |-> total, available |-> available, used |-> used,
                                percent |-> Ratio(used * 100, total)]

\* RemoteSystemMonitor.get_memory_info: {} when there is no session, no
\* output or a token int() rejects
RemoteGetMemoryInfo(s, resp) ==
    IF ~is_remote(s) THEN EmptyDict
    ELSE LET output == execute_command(s, resp).output
         IN  IF ~Truthy(output) THEN EmptyDict
             ELSE LET parts == split(output[1])
                  IN  IF \/ ~parts[1].isint
                         \/ Len(parts) > 1 /\ ~parts[2].isint
                         \/ Len(parts) > 2 /\ ~parts[3].isint
                      THEN EmptyDict
                      ELSE LET total     == parts[1].val
                               used      == IF Len(parts) > 1 THEN parts[2].val ELSE 0
                               available == IF Len(parts) > 2 THEN parts[3].val
                                            ELSE total - used
                           IN  [total |-> total, available |-> available, used |-> used,
                                percent |-> IF total > 0 THEN Ratio(used * 100, total)
                                            ELSE Zero]

\* float(word) if word.replace('.', '').isdigit() else 0; float raises on a
\* word of digits and several dots
ProcessNumberRaises(tok) == DigitsAndDots(tok) /\ ~FloatAccepts(tok)

ProcessNumber(tok) == IF DigitsAndDots(tok) THEN FloatOf(tok) ELSE Zero

\* the body of the loop of get_processes for one line: the entry appended,
\* or nothing when the line is short or its try ends in "except: continue"
ParseProcessLine(line) ==
    LET parts == split(line)
    IN  IF Len(parts) < 4 THEN <<>>
        ELSE IF ~parts[1].isint THEN <<>>
        ELSE IF ProcessNumberRaises(parts[3]) \/ ProcessNumberRaises(parts[4]) THEN <<>>
        ELSE <<[pid            |-> parts[1].val,
                name           |-> parts[2],
                cpu_percent    |-> ProcessNumber(parts[3]),
                memory_percent |-> ProcessNumber(parts[4]),
                status         |-> IF Len(parts) > 4 THEN <<parts[5]>> ELSE <<"unknown">>]>>

RECURSIVE ProcessLoop(_, _)
ProcessLoop(lines, i) ==
    IF i > Len(lines) THEN <<>>
    ELSE ParseProcessLine(lines[i]) \o ProcessLoop(lines, i + 1)

\* RemoteSystemMonitor.get_processes: [] when there is no session or no
\* output
RemoteGetProcesses(s, resp) ==
    IF ~is_remote(s) THEN <<>>
    ELSE LET output == execute_command(s, resp).output
         IN  IF ~Truthy(output) THEN <<>>
             ELSE ProcessLoop(split_lines(strip(output[1])), 1)

\* what the network command can print: the two counters, one token only,
\* text that is no integer, or nothing
Printed ==
    { <<IntTok(c.bytes_recv), Blank, IntTok(c.bytes_sent), Blank>> : c \in NetCounters }
        \cup { <<IntTok(0)>>, <<BadTok, Blank, BadTok>>, <<>> }

\* the responses to the network command: one of these on stdout, with
\* nothing or a message on stderr
NetResponses ==
    { Response(p, e) : p \in Printed, e \in {<<>>, <<BadTok>>} }

(***************************************************************************)
(* Optional values: None is <<>>, a present value v is <<v>>.              *)
(***************************************************************************)
None == <<>>

Some(v) == <<v>>

(***************************************************************************)
(* Snapshots (pdf_exporter.py).  A snapshot is a function from metric name *)
(* to sample.  Samples keep the fields the comparison code reads.          *)
(***************************************************************************)
\* the keys of the dict literal of _get_snapshot, in its order
SnapshotKeys ==
    <<"cpu", "cpu_per_core", "memory", "disk", "network", "processes", "devices",
      "gpu", "battery", "temperature", "security", "timestamp">>

Disk(m, used, pct) == [mountpoint |-> m, used_gb |-> used, percent |-> pct]

\* what the collectors other than the network one can return at one moment
CpuReadings == {30, 90}

DiskReadings == { <<Disk("/", 100, 50)>>, <<>> }

Reading(c, d) ==
    [cpu          |-> c,
     cpu_per_core |-> <<30, 30>>,
     memory       |-> [percent |-> 50, used_gb |-> 8],
     disk         |-> d,
     processes    |-> <<[pid |-> 1, name |-> "init"]>>,
     devices      |-> d,
     gpu          |-> <<>>,
     battery      |-> [present |-> TRUE, percent |-> 80],
     temperature  |-> <<[sensor |-> "N/A", current |-> 0]>>,
     security     |-> [security_score |-> 90, open_ports |-> 2],
     raises       |-> "none"]

\* the collectors that let an error out: get_disk_usage catches only
\* PermissionError around psutil.disk_usage, scan_open_ports only
\* AccessDenied and NoSuchProcess around psutil.net_connections
RaisingCollectors == {"disk", "security"}

\* the reading in which the collector of key k raises instead of returning
Raising(r, k) == [r EXCEPT !.raises = k]

Readings ==
    { Reading(c, d) : c \in CpuReadings, d \in DiskReadings }
        \cup { Raising(Reading(30, <<>>), k) : k \in RaisingCollectors }

\* the methods _get_snapshot calls on self.monitor
MonitorCalls ==
    {"get_cpu_usage", "get_cpu_per_core", "get_memory_info", "get_disk_usage",
     "get_network_activity", "get_processes"}

\* the methods the two monitor classes define
SystemMonitorMethods ==
    {"get_cpu_usage", "get_cpu_per_core", "get_memory_info", "get_disk_usage",
     "get_network_activity", "get_processes", "kill_process", "get_system_info",
     "get_disk_io", "get_cpu_frequency", "get_temperatures"}

RemoteSystemMonitorMethods ==
    {"get_cpu_usage", "get_memory_info", "get_disk_usage", "get_network_activity",
     "get_processes", "get_system_info", "kill_process"}

MethodsOf(mon) ==
    IF mon = "local" THEN SystemMonitorMethods ELSE RemoteSystemMonitorMethods

\* the place of a key in the dict literal of _get_snapshot
KeyIndex(k) == CHOOSE i \in DOMAIN SnapshotKeys : SnapshotKeys[i] = k

\* whether _get_snapshot gets as far as self.monitor.get_network_activity()
NetworkSampled(mon, r) ==
    /\ mon = "local"
    /\ r.raises = "none" \/ KeyIndex(r.raises) > KeyIndex("network")

\* _get_snapshot: the entries of the dict literal are evaluated in order and
\* nothing is caught, so the first collector that raises ends the call.
\* RemoteSystemMonitor has no get_cpu_per_core, so with the remote monitor
\* the second entry raises AttributeError before the network is sampled;
\* with the local monitor the network sample advances the local rate tracker
\* and the timestamp is taken last
GetSnapshot(mon, r, c, st, t) ==
    IF ~(MonitorCalls \subseteq MethodsOf(mon))
    THEN [raised |-> TRUE, snapshot |-> None, state |-> st]
    ELSE LET n == LocalGetNetworkActivity(st, c, t)
             snap == [k \in {SnapshotKeys[i] : i \in DOMAIN SnapshotKeys} |->
                        IF k = "network" THEN n.result
                        ELSE IF k = "timestamp" THEN t
                        ELSE r[k]]
         IN  IF r.raises # "none"
             THEN [raised |-> TRUE, snapshot |-> None,
                   state |-> IF NetworkSampled(mon, r) THEN n.state ELSE st]
             ELSE [raised |-> FALSE, snapshot |-> Some(snap), state |-> n.state]

(***************************************************************************)
(* The snapshot file.  Its text is the sequence of the members            *)
(* <<key, value>> that json.dump writes, in the order of the dict, and     *)
(* whether the document is complete (its closing brace was written).       *)
(***************************************************************************)
NoFile == [exists |-> FALSE]

RECURSIVE Members(_, _, _)
Members(snapshot, keys, i) ==
    IF i > Len(keys) THEN <<>>
    ELSE IF keys[i] \in DOMAIN snapshot
         THEN <<<<keys[i], snapshot[keys[i]]>>>> \o Members(snapshot, keys, i + 1)
         ELSE Members(snapshot, keys, i + 1)

json_dump(snapshot) == Members(snapshot, SnapshotKeys, 1)

\* json.load of a complete document: the dict of its first n members; of two
\* members with the same key the later one stays
RECURSIVE ParseMembers(_, _)
ParseMembers(members, n) ==
    IF n = 0 THEN <<>>
    ELSE (members[n][1] :> members[n][2]) @@ ParseMembers(members, n - 1)

json_load(members) == ParseMembers(members, Len(members))

\* a save that opens the file for appending
SaveSnapshotAppending(f, snapshot) ==
    [exists |-> TRUE, complete |-> TRUE,
     members |-> (IF f.exists THEN f.members ELSE <<>>) \o json_dump(snapshot)]

\* _save_snapshot on the file f: open(..., 'w') truncates, json.dump writes
SaveSnapshot(f, snapshot) ==
    [exists |-> TRUE, complete |-> TRUE, members |-> json_dump(snapshot)]

\* a load that opens the file without asking whether it exists
LoadPreviousSnapshotUnguarded(f) ==
    IF ~f.exists \/ ~f.complete THEN [raised |-> TRUE, ret |-> None, file |-> f]
    ELSE [raised |-> FALSE, ret |-> Some(json_load(f.members)), file |-> f]

\* _load_previous_snapshot: None when the file does not exist, the parsed
\* dict otherwise; json.load raises on a document it cannot parse and the
\* method does not catch it.  The file is only read.
LoadPreviousSnapshot(f) ==
    IF ~f.exists THEN [raised |-> FALSE, ret |-> None, file |-> f]
    ELSE IF ~f.complete THEN [raised |-> TRUE, ret |-> None, file |-> f]
    ELSE [raised |-> FALSE, ret |-> Some(json_load(f.members)), file |-> f]

\* a generate_report that saves today's snapshot and then loads the file
ReportPreviousAfterSave(f, built) == LoadPreviousSnapshot(SaveSnapshot(f, built[1]))

\* generate_report: _load_previous_snapshot runs after _get_snapshot and
\* before _save_snapshot, on the file as the handler found it
ReportPrevious(f, built) == LoadPreviousSnapshot(f)

\* "not previous_snapshot": None and {} are falsy
Falsy(ret) == ret = None \/ DOMAIN ret[1] = {}

\* a diff that also walks the keys of old
CompareSnapshotsBothWays(old, new) ==
    [key \in {k \in DOMAIN new \cup DOMAIN old :
                 k \notin DOMAIN old \/ k \notin DOMAIN new \/ new[k] # old[k]} |->
        IF key \notin DOMAIN old
        THEN [old |-> None, new |-> new[key]]
        ELSE IF key \notin DOMAIN new
        THEN [old |-> Some(old[key]), new |-> None]
        ELSE [old |-> Some(old[key]), new |-> new[key]]]

\* _compare_snapshots
CompareSnapshots(old, new) ==
    [key \in {k \in DOMAIN new : k \notin DOMAIN old \/ new[k] # old[k]} |->
        IF key \notin DOMAIN old
        THEN [old |-> None, new |-> new[key]]
        ELSE [old |-> Some(old[key]), new |-> new[key]]]

(***************************************************************************)
(* display_overall_summary (main.py): issues, recommendations, positives.  *)
(* A message is a tuple: its fixed text, then the values formatted into    *)
(* it.  Each section sits in its own try/except-pass: a diff entry whose   *)
(* old value is None raises at the subtraction, before anything is         *)
(* appended, and the section adds nothing.                                 *)
(***************************************************************************)
NoFindings == [issues |-> <<>>, recommendations |-> <<>>, positives |-> <<>>]

Append3(a, b) ==
    [issues          |-> a.issues \o b.issues,
     recommendations |-> a.recommendations \o b.recommendations,
     positives       |-> a.positives \o b.positives]

\* CPU Analysis reporting a change of more than 10 as an issue whichever way
\* it goes
CpuAnalysisEitherWay(diffs) ==
    IF "cpu" \notin DOMAIN diffs \/ diffs["cpu"].old = None THEN NoFindings
    ELSE LET old_cpu == diffs["cpu"].old[1]
             new_cpu == diffs["cpu"].new
             delta   == new_cpu - old_cpu
             change  == IF Abs(delta) > 10
                        THEN [issues |-> << <<"CPU usage increased by", delta>> >>,
                              recommendations |->
                                  << <<"Monitor CPU-intensive processes in Processes tab">> >>,
                              positives |-> <<>>]
                        ELSE NoFindings
             high    == IF new_cpu > 80
                        THEN [issues |-> << <<"CPU usage is high", new_cpu>> >>,
                              recommendations |-> << <<"Close unnecessary applications">>,
                                                     <<"Check for runaway processes">> >>,
                              positives |-> <<>>]
                        ELSE NoFindings
         IN  Append3(change, high)

CpuAnalysis(diffs) ==
    IF "cpu" \notin DOMAIN diffs \/ diffs["cpu"].old = None THEN NoFindings
    ELSE LET old_cpu == diffs["cpu"].old[1]
             new_cpu == diffs["cpu"].new
             delta   == new_cpu - old_cpu
             change  == IF Abs(delta) > 10
                        THEN IF delta > 0
                             THEN [issues |-> << <<"CPU usage increased by", delta>> >>,
                                   recommendations |->
                                       << <<"Monitor CPU-intensive processes in Processes tab">> >>,
                                   positives |-> <<>>]
                             ELSE [issues |-> <<>>, recommendations |-> <<>>,
                                   positives |-> << <<"CPU usage decreased by", Abs(delta)>> >>]
                        ELSE NoFindings
             high    == IF new_cpu > 80
                        THEN [issues |-> << <<"CPU usage is high", new_cpu>> >>,
                              recommendations |-> << <<"Close unnecessary applications">>,
                                                     <<"Check for runaway processes">> >>,
                              positives |-> <<>>]
                        ELSE NoFindings
         IN  Append3(change, high)

MemoryAnalysis(diffs) ==
    IF "memory" \notin DOMAIN diffs \/ diffs["memory"].old = None THEN NoFindings
    ELSE LET old_mem   == diffs["memory"].old[1]
             new_mem   == diffs["memory"].new
             delta_pct == new_mem.percent - old_mem.percent
             change    == IF Abs(delta_pct) > 10
                          THEN IF delta_pct > 0
                               THEN [issues |-> << <<"Memory usage increased by", delta_pct>> >>,
                                     recommendations |->
                                         << <<"Check for memory leaks">>,
                                            <<"Review resource-heavy processes">> >>,
                                     positives |-> <<>>]
                               ELSE [issues |-> <<>>, recommendations |-> <<>>,
                                     positives |->
                                         << <<"Memory usage decreased by", Abs(delta_pct)>> >>]
                          ELSE NoFindings
             critical  == IF new_mem.percent > 85
                          THEN [issues |-> << <<"Memory usage is critical", new_mem.percent>> >>,
                                recommendations |-> << <<"Close applications immediately">>,
                                                       <<"Consider upgrading RAM">> >>,
                                positives |-> <<>>]
                          ELSE NoFindings
         IN  Append3(change, critical)

\* the loop over new_disks_list pairing each new disk with the old disk of
\* the same mountpoint
RECURSIVE DiskLoopByMountpoint(_, _, _)
DiskLoopByMountpoint(old_disks_list, new_disks_list, i) ==
    IF i > Len(new_disks_list) THEN NoFindings
    ELSE LET new_disk == new_disks_list[i]
             same == { j \in 1..Len(old_disks_list) :
                          old_disks_list[j].mountpoint = new_disk.mountpoint }
             here ==
                IF same # {}
                THEN LET old_disk == old_disks_list[CHOOSE j \in same : \A k \in same : j <= k]
                         delta_gb == new_disk.used_gb - old_disk.used_gb
                         mount    == new_disk.mountpoint
                         grew == IF delta_gb > 5
                                 THEN [issues |-> << <<"Disk increased by", mount, delta_gb>> >>,
                                       recommendations |->
                                           << <<"Clean up using Optimize tab", mount>> >>,
                                       positives |-> <<>>]
                                 ELSE NoFindings
                         low  == IF new_disk.percent > 85
                                 THEN [issues |->
                                           << <<"Disk low on space", mount, new_disk.percent>> >>,
                                       recommendations |->
                                           << <<"Free up space immediately", mount>> >>,
                                       positives |-> <<>>]
                                 ELSE NoFindings
                     IN  Append3(grew, low)
                ELSE NoFindings
         IN  Append3(here, DiskLoopByMountpoint(old_disks_list, new_disks_list, i + 1))

\* the body of the loop over enumerate(new_disks_list), from index i on
\* (indices count from 1 here)
RECURSIVE DiskLoop(_, _, _)
DiskLoop(old_disks_list, new_disks_list, i) ==
    IF i > Len(new_disks_list) THEN NoFindings
    ELSE LET new_disk == new_disks_list[i]
             here ==
                IF i <= Len(old_disks_list)
                THEN LET old_disk == old_disks_list[i]
                         delta_gb == new_disk.used_gb - old_disk.used_gb
                         mount    == new_disk.mountpoint
                         grew == IF delta_gb > 5
                                 THEN [issues |-> << <<"Disk increased by", mount, delta_gb>> >>,
                                       recommendations |->
                                           << <<"Clean up using Optimize tab", mount>> >>,
                                       positives |-> <<>>]
                                 ELSE NoFindings
                         low  == IF new_disk.percent > 85
                                 THEN [issues |->
                                           << <<"Disk low on space", mount, new_disk.percent>> >>,
                                       recommendations |->
                                           << <<"Free up space immediately", mount>> >>,
                                       positives |-> <<>>]
                                 ELSE NoFindings
                     IN  Append3(grew, low)
                ELSE NoFindings
         IN  Append3(here, DiskLoop(old_disks_list, new_disks_list, i + 1))

\* len(None) raises on the first pass of the loop; with no new disk the loop
\* body never runs
DiskAnalysis(diffs) ==
    IF "disk" \notin DOMAIN diffs \/ diffs["disk"].old = None THEN NoFindings
    ELSE DiskLoop(diffs["disk"].old[1], diffs["disk"].new, 1)

\* the last occurrence of each recommendation, in order
RECURSIVE UniqueRecsLastWins(_, _)
UniqueRecsLastWins(recommendations, i) ==
    IF i > Len(recommendations) THEN <<>>
    ELSE IF \E j \in (i + 1)..Len(recommendations) : recommendations[j] = recommendations[i]
         THEN UniqueRecsLastWins(recommendations, i + 1)
         ELSE <<recommendations[i]>> \o UniqueRecsLastWins(recommendations, i + 1)

\* "Remove duplicates": the first occurrence of each recommendation, in order
RECURSIVE UniqueRecs(_, _)
UniqueRecs(recommendations, i) ==
    IF i > Len(recommendations) THEN <<>>
    ELSE IF \E j \in 1..(i - 1) : recommendations[j] = recommendations[i]
         THEN UniqueRecs(recommendations, i + 1)
         ELSE <<recommendations[i]>> \o UniqueRecs(recommendations, i + 1)

display_overall_summary(diffs) ==
    LET all == Append3(Append3(CpuAnalysis(diffs), MemoryAnalysis(diffs)), DiskAnalysis(diffs))
    IN  [issues          |-> all.issues,
         recommendations |-> UniqueRecs(all.recommendations, 1),
         positives       |-> all.positives]

(***************************************************************************)
(* display_comparison_summary (main.py): the warnings it inserts and the   *)
(* sections that end in their except clause.                               *)
(***************************************************************************)
NoLines == [warnings |-> <<>>, errors |-> <<>>]

AppendLines(a, b) ==
    [warnings |-> a.warnings \o b.warnings, errors |-> a.errors \o b.errors]

\* a section whose try raised: old is None, and the section subtracts from
\* it, subscripts it or iterates over it
SectionError(name) == [warnings |-> <<>>, errors |-> <<name>>]

\* {d['mountpoint']: d for d in disks}: the keys in the order of their first
\* occurrence
RECURSIVE MountOrder(_, _)
MountOrder(disks, i) ==
    IF i > Len(disks) THEN <<>>
    ELSE IF \E j \in 1..(i - 1) : disks[j].mountpoint = disks[i].mountpoint
         THEN MountOrder(disks, i + 1)
         ELSE <<disks[i].mountpoint>> \o MountOrder(disks, i + 1)

\* the value of a key of that dict: the last disk of the mountpoint
MountDisk(disks, mount) ==
    disks[CHOOSE j \in 1..Len(disks) :
              /\ disks[j].mountpoint = mount
              /\ \A k \in (j + 1)..Len(disks) : disks[k].mountpoint # mount]

\* the loop over new_disks.items() from the i-th key on
RECURSIVE ComparisonDiskLoop(_, _, _, _)
ComparisonDiskLoop(old_disks, new_disks, mounts, i) ==
    IF i > Len(mounts) THEN NoLines
    ELSE LET mount == mounts[i]
             here ==
                IF \E j \in 1..Len(old_disks) : old_disks[j].mountpoint = mount
                THEN IF MountDisk(new_disks, mount).percent >= 85
                     THEN [warnings |-> << <<"Low disk space on", mount>> >>, errors |-> <<>>]
                     ELSE NoLines
                ELSE NoLines
         IN  AppendLines(here, ComparisonDiskLoop(old_disks, new_disks, mounts, i + 1))

\* the battery section without its low-level warning
ComparisonBatteryNoWarning(diffs) ==
    IF "battery" \notin DOMAIN diffs THEN NoLines
    ELSE IF diffs["battery"].old = None THEN SectionError("battery")
    ELSE NoLines

ComparisonBattery(diffs) ==
    IF "battery" \notin DOMAIN diffs THEN NoLines
    ELSE IF diffs["battery"].old = None THEN SectionError("battery")
    ELSE IF diffs["battery"].new.percent < 20
         THEN [warnings |-> << <<"Low battery level">> >>, errors |-> <<>>]
         ELSE NoLines

display_comparison_summary(diffs) ==
    LET cpu ==
            IF "cpu" \notin DOMAIN diffs THEN NoLines
            ELSE IF diffs["cpu"].old = None THEN SectionError("CPU")
            ELSE IF diffs["cpu"].new >= 80
                 THEN [warnings |-> << <<"High CPU usage detected">> >>, errors |-> <<>>]
                 ELSE NoLines
        memory ==
            IF "memory" \notin DOMAIN diffs THEN NoLines
            ELSE IF diffs["memory"].old = None THEN SectionError("memory")
            ELSE IF diffs["memory"].new.percent >= 85
                 THEN [warnings |-> << <<"High memory usage detected">> >>, errors |-> <<>>]
                 ELSE NoLines
        disk ==
            IF "disk" \notin DOMAIN diffs THEN NoLines
            ELSE IF diffs["disk"].old = None THEN SectionError("disk")
            ELSE ComparisonDiskLoop(diffs["disk"].old[1], diffs["disk"].new,
                                    MountOrder(diffs["disk"].new, 1), 1)
        network ==
            IF "network" \in DOMAIN diffs /\ diffs["network"].old = None
            THEN SectionError("network")
            ELSE NoLines
    IN  AppendLines(AppendLines(AppendLines(AppendLines(cpu, memory), disk), network),
                    ComparisonBattery(diffs))

(***************************************************************************)
(* PDFExporter._add_overall_summary (pdf_exporter.py): the key changes and *)
(* the recommendations of the executive summary.  Nothing in it is in a    *)
(* try: an entry without an old value raises.                              *)
(***************************************************************************)
RECURSIVE SumUsed(_, _)
SumUsed(disks, i) ==
    IF i > Len(disks) THEN 0 ELSE disks[i].used_gb + SumUsed(disks, i + 1)

Trend(delta, up, down) == IF delta > 0 THEN up ELSE down

\* the points of one metric
CpuPoints(diffs) ==
    IF "cpu" \notin DOMAIN diffs THEN <<>>
    ELSE LET delta == diffs["cpu"].new - diffs["cpu"].old[1]
         IN  IF Abs(delta) > 5
             THEN << <<Trend(delta, "CPU usage increased by", "CPU usage decreased by"),
                       Abs(delta)>> >>
             ELSE <<>>

MemoryPoints(diffs) ==
    IF "memory" \notin DOMAIN diffs THEN <<>>
    ELSE LET delta_used    == diffs["memory"].new.used_gb - diffs["memory"].old[1].used_gb
             delta_percent == diffs["memory"].new.percent - diffs["memory"].old[1].percent
         IN  IF Abs(delta_percent) > 5
             THEN << <<Trend(delta_percent, "Memory usage increased by",
                             "Memory usage decreased by"), Abs(delta_percent)>> >>
             ELSE <<>>

DiskPoints(diffs) ==
    IF "disk" \notin DOMAIN diffs THEN <<>>
    ELSE LET total_delta_used ==
                 SumUsed(diffs["disk"].new, 1) - SumUsed(diffs["disk"].old[1], 1)
         IN  IF Abs(total_delta_used) > 1
             THEN << <<Trend(total_delta_used, "Total disk usage increased by",
                             "Total disk usage decreased by"), Abs(total_delta_used)>> >>
             ELSE <<>>

BatteryPoints(diffs) ==
    IF "battery" \notin DOMAIN diffs THEN <<>>
    ELSE LET delta_battery == diffs["battery"].new.percent - diffs["battery"].old[1].percent
         IN  IF Abs(delta_battery) > 10
             THEN << <<Trend(delta_battery, "Battery charged by", "Battery discharged by"),
                       Abs(delta_battery)>> >>
             ELSE <<>>

\* the security points with a threshold of 5 on the change of the score
SecurityPointsOverFive(diffs) ==
    IF "security" \notin DOMAIN diffs THEN <<>>
    ELSE LET delta_score ==
                 diffs["security"].new.security_score - diffs["security"].old[1].security_score
         IN  IF Abs(delta_score) > 5
             THEN << <<Trend(delta_score, "Security score improved by",
                             "Security score declined by"), Abs(delta_score)>> >>
             ELSE <<>>

SecurityPoints(diffs) ==
    IF "security" \notin DOMAIN diffs THEN <<>>
    ELSE LET delta_score ==
                 diffs["security"].new.security_score - diffs["security"].old[1].security_score
         IN  IF delta_score # 0
             THEN << <<Trend(delta_score, "Security score improved by",
                             "Security score declined by"), Abs(delta_score)>> >>
             ELSE <<>>

RECURSIVE LowDiskLines(_, _)
LowDiskLines(disks, i) ==
    IF i > Len(disks) THEN <<>>
    ELSE ( IF disks[i].percent > 85
           THEN << <<"Disk is running low on space", disks[i].mountpoint>> >>
           ELSE <<>> ) \o LowDiskLines(disks, i + 1)

\* the lines under "Recommendations:", written only when there is a point
SummaryRecommendations(diffs) ==
    LET high_cpu == "cpu" \in DOMAIN diffs /\ diffs["cpu"].new > 80
        high_mem == "memory" \in DOMAIN diffs /\ diffs["memory"].new.percent > 85
        low_sec  == "security" \in DOMAIN diffs /\ diffs["security"].new.security_score < 70
    IN  ( IF high_cpu THEN << <<"High CPU usage detected">> >> ELSE <<>> ) \o
        ( IF high_mem THEN << <<"Memory usage is high">> >> ELSE <<>> ) \o
        ( IF "disk" \in DOMAIN diffs THEN LowDiskLines(diffs["disk"].new, 1) ELSE <<>> ) \o
        ( IF low_sec THEN << <<"Security score is below optimal">> >> ELSE <<>> ) \o
        ( IF ~(high_cpu \/ high_mem \/ low_sec)
          THEN << <<"System is operating within normal parameters">> >> ELSE <<>> )

NoSummary == [summary_points |-> <<>>, recommendations |-> <<>>]

add_overall_summary(diffs) ==
    IF DOMAIN diffs = {} THEN [raised |-> FALSE, value |-> NoSummary]
    ELSE IF \E k \in {"cpu", "memory", "disk", "battery", "security"} :
                k \in DOMAIN diffs /\ diffs[k].old = None
    THEN [raised |-> TRUE, value |-> NoSummary]
    ELSE LET summary_points ==
                 CpuPoints(diffs) \o MemoryPoints(diffs) \o DiskPoints(diffs) \o
                 BatteryPoints(diffs) \o SecurityPoints(diffs)
         IN  [raised |-> FALSE,
              value  |-> [summary_points  |-> summary_points,
                          recommendations |-> IF summary_points # <<>>
                                              THEN SummaryRecommendations(diffs)
                                              ELSE <<>>]]

\* display_comparison_charts is not wrapped in a try: it raises when an entry
\* it subtracts has no old value, and when the old disk list is not empty
\* and the new one is (it tests len(old) and then indexes new[0])
display_comparison_charts_raises(diffs) ==
    \/ \E k \in {"cpu", "memory", "disk", "network"} :
            k \in DOMAIN diffs /\ diffs[k].old = None
    \/ /\ "disk" \in DOMAIN diffs
       /\ Len(diffs["disk"].old[1]) > 0
       /\ Len(diffs["disk"].new) = 0

(***************************************************************************)
(* The application (main.py, SystemMonitorApp).                            *)
(***************************************************************************)
NoNet ==
    [mon |-> "none", ok |-> FALSE, first |-> FALSE, after_switch |-> FALSE,
     before |-> RemoteMonitorInit, t |-> 0, result |-> EmptyDict, cause |-> "none"]

NoCmp ==
    [op |-> "none", outcome |-> "none", had_file |-> FALSE, built |-> None, previous |-> None,
     load |-> [called |-> FALSE, raised |-> FALSE, existed |-> FALSE,
               complete |-> FALSE, touched |-> FALSE],
     saved |-> FALSE, stored |-> NoFile, diffs |-> <<>>, findings |-> NoFindings,
     source |-> "none", active |-> "none"]

\* the record kept of one get_network_activity call on monitor m
NetRecord(m, before, n, t) ==
    [mon          |-> m,
     ok           |-> n.result # EmptyDict,
     first        |-> ~observed[m],
     after_switch |-> switched /\ monitor = m,
     before       |-> before,
     t            |-> t,
     result       |-> n.result,
     cause        |-> "none"]

NoteObserved(m, n) ==
    /\ observed' = IF n.result # EmptyDict THEN [observed EXCEPT ![m] = TRUE] ELSE observed
    /\ switched' = IF n.result # EmptyDict /\ monitor = m THEN FALSE ELSE switched

AppInit ==
    /\ now = 0
    /\ file = NoFile
    /\ monitor = "local"
    /\ exporter_monitor = "local"
    /\ ssh = SSHInit
    /\ ssh_hist = SshHistInit
    /\ local_net \in { SystemMonitorInit(c, 0) : c \in NetCounters }
    /\ remote_net = RemoteMonitorInit
    /\ last_net = NoNet
    /\ last_cmp = NoCmp
    /\ last_saved = None
    /\ switched = FALSE
    /\ observed = [m \in {"local", "remote"} |-> FALSE]

\* time passes
Tick ==
    /\ now < MaxTime
    /\ now' = now + 1
    /\ UNCHANGED <<d_old, d_new, d_out, call, returned, file, monitor, exporter_monitor, ssh, ssh_hist, local_net, remote_net,
                   last_net, last_cmp, last_saved, switched, observed>>

\* the wall clock is set back
ClockStepBack ==
    /\ now > 0
    /\ now' \in 0..(now - 1)
    /\ UNCHANGED <<d_old, d_new, d_out, call, returned, file, monitor, exporter_monitor, ssh, ssh_hist, local_net, remote_net,
                   last_net, last_cmp, last_saved, switched, observed>>

\* update_dashboard with the local monitor active
UpdateDashboardLocal(C) ==
    /\ monitor = "local"
    /\ \E c \in C :
          LET n == LocalGetNetworkActivity(local_net, c, now)
          IN  /\ local_net' = n.state
              /\ last_net' = NetRecord("local", local_net, n, now)
              /\ NoteObserved("local", n)
    /\ UNCHANGED <<d_old, d_new, d_out, call, returned, now, file, monitor, exporter_monitor, ssh, ssh_hist, remote_net, last_cmp, last_saved>>

\* update_dashboard with the remote monitor active
UpdateDashboardRemote(P) ==
    /\ monitor = "remote"
    /\ \E resp \in P :
          LET n == RemoteGetNetworkActivity(remote_net, ssh, resp, now)
          IN  /\ remote_net' = n.state
              /\ last_net' = [NetRecord("remote", remote_net, n, now)
                                  EXCEPT !.cause = NetFailure(ssh, resp)]
              /\ NoteObserved("remote", n)
    /\ UNCHANGED <<d_old, d_new, d_out, call, returned, now, file, monitor, exporter_monitor, ssh, ssh_hist, local_net, last_cmp, last_saved>>

\* connect_remote: the monitor is switched only when the connect succeeded
ConnectRemote(H, O, K, N) ==
    \E h \in H, outcome \in O, key \in K, collected \in BOOLEAN :
        /\ ssh_hist.connects < N
        /\ ssh' = SSHConnect(ssh, h, outcome, key)
        /\ ssh_hist' = SshHistConnect(ssh_hist, ssh, h, outcome, key, collected)
        /\ monitor' = IF ConnectResult(ssh, h, outcome, key) = "ok" THEN "remote" ELSE monitor
        /\ switched' = IF /\ ConnectResult(ssh, h, outcome, key) = "ok"
                          /\ (monitor = "local" \/ ssh.host # h)
                       THEN TRUE ELSE switched
        /\ UNCHANGED <<d_old, d_new, d_out, call, returned, now, file, exporter_monitor, local_net, remote_net,
                       last_net, last_cmp, last_saved, observed>>

\* disconnect_remote
DisconnectRemote ==
    /\ ssh' = SSHDisconnect(ssh)
    /\ monitor' = "local"
    /\ switched' = IF monitor = "remote" THEN TRUE ELSE switched
    /\ UNCHANGED <<d_old, d_new, d_out, call, returned, ssh_hist, now, file, exporter_monitor, local_net, remote_net,
                   last_net, last_cmp, last_saved, observed>>

\* the monitor _get_snapshot reads in the handler op: load_comparison_data
\* calls the exporter the application holds, export_to_pdf builds an
\* exporter around the active monitor first
SnapshotSource(op) == IF op = "compare" THEN exporter_monitor ELSE monitor

\* the record of a handler that has just started
Started(op) ==
    [NoCmp EXCEPT !.op = op, !.had_file = file.exists, !.stored = file,
                  !.source = SnapshotSource(op), !.active = monitor]

\* the network sample _get_snapshot takes with the local monitor
SnapshotSamplesNetwork(mon, r, c) ==
    /\ IF NetworkSampled(mon, r)
       THEN LET n == LocalGetNetworkActivity(local_net, c, now)
            IN  /\ local_net' = n.state
                /\ NoteObserved("local", n)
       ELSE UNCHANGED <<local_net, observed, switched>>
    /\ UNCHANGED last_net

LoadRecord(L) ==
    [called   |-> TRUE,
     raised   |-> L.raised,
     existed  |-> file.exists,
     complete |-> file.exists /\ file.complete,
     touched  |-> L.file # file]

\* load_comparison_data.  Every exception ends in the except clause
\* (messagebox.showerror) without a save.
LoadComparisonData(R, C) ==
    \E r \in R, c \in C :
        LET b == GetSnapshot(exporter_monitor, r, c, local_net, now)
            L == LoadPreviousSnapshot(file)
        IN  /\ SnapshotSamplesNetwork(exporter_monitor, r, c)
            /\ IF b.raised
               THEN /\ last_cmp' = [Started("compare") EXCEPT !.outcome = "error"]
                    /\ UNCHANGED <<file, last_saved>>
               ELSE IF L.raised
               THEN /\ last_cmp' = [Started("compare") EXCEPT !.outcome = "error",
                                                 !.built = b.snapshot, !.load = LoadRecord(L)]
                    /\ file' = L.file
                    /\ UNCHANGED last_saved
               ELSE IF Falsy(L.ret)
               THEN \* "No previous snapshot found": the snapshot is saved as the baseline
                    /\ last_cmp' = [Started("compare") EXCEPT !.outcome = "baseline",
                                                 !.built = b.snapshot, !.previous = L.ret,
                                                 !.load = LoadRecord(L), !.saved = TRUE,
                                                 !.stored = SaveSnapshot(file, b.snapshot[1])]
                    /\ file' = SaveSnapshot(file, b.snapshot[1])
                    /\ last_saved' = b.snapshot
               ELSE LET diffs == CompareSnapshots(L.ret[1], b.snapshot[1])
                        seen  == [Started("compare") EXCEPT !.built = b.snapshot,
                                               !.previous = L.ret, !.load = LoadRecord(L),
                                               !.diffs = diffs]
                    IN  IF DOMAIN diffs = {}
                        THEN \* "Warning: No comparison data generated": return
                             /\ last_cmp' = [seen EXCEPT !.outcome = "no_diffs"]
                             /\ file' = L.file
                             /\ UNCHANGED last_saved
                        ELSE IF display_comparison_charts_raises(diffs)
                        THEN /\ last_cmp' = [seen EXCEPT !.outcome = "error"]
                             /\ file' = L.file
                             /\ UNCHANGED last_saved
                        ELSE /\ last_cmp' = [seen EXCEPT !.outcome = "success",
                                                         !.findings = display_overall_summary(diffs),
                                                         !.saved = TRUE,
                                                         !.stored = SaveSnapshot(file, b.snapshot[1])]
                             /\ file' = SaveSnapshot(file, b.snapshot[1])
                             /\ last_saved' = b.snapshot
            /\ UNCHANGED <<d_old, d_new, d_out, call, returned, now, monitor, exporter_monitor, ssh, ssh_hist, remote_net>>

\* export_to_pdf with a file name chosen: a new PDFExporter is built around
\* the active monitor, then generate_report: snapshot, load, save, compare,
\* render.  rendered: whether the PDF sections and pdf.output went through.
ExportToPdf(R, C) ==
    \E r \in R, c \in C, rendered \in BOOLEAN :
        LET b == GetSnapshot(monitor, r, c, local_net, now)
            L == ReportPrevious(file, b.snapshot)
        IN  /\ exporter_monitor' = monitor
            /\ SnapshotSamplesNetwork(monitor, r, c)
            /\ IF b.raised
               THEN /\ last_cmp' = [Started("export") EXCEPT !.outcome = "error"]
                    /\ UNCHANGED <<file, last_saved>>
               ELSE IF L.raised
               THEN /\ last_cmp' = [Started("export") EXCEPT !.outcome = "error",
                                                 !.built = b.snapshot, !.load = LoadRecord(L)]
                    /\ file' = L.file
                    /\ UNCHANGED last_saved
               ELSE LET diffs == IF Falsy(L.ret) THEN <<>>
                                 ELSE CompareSnapshots(L.ret[1], b.snapshot[1])
                    IN  /\ last_cmp' = [Started("export") EXCEPT
                                            !.outcome = IF rendered THEN "exported" ELSE "error",
                                            !.built = b.snapshot, !.previous = L.ret,
                                            !.load = LoadRecord(L), !.saved = TRUE,
                                            !.diffs = diffs,
                                            !.stored = SaveSnapshot(file, b.snapshot[1])]
                        /\ file' = SaveSnapshot(file, b.snapshot[1])
                        /\ last_saved' = b.snapshot
            /\ UNCHANGED <<d_old, d_new, d_out, call, returned, now, monitor, ssh, ssh_hist, remote_net>>

\* the snapshot file is cut short (an interrupted write, an editor, a full disk)
CorruptSnapshotFile ==
    /\ file.exists
    /\ file.complete
    /\ file' = [exists |-> TRUE, complete |-> FALSE, members |-> <<>>]
    /\ last_saved' = None
    /\ UNCHANGED <<d_old, d_new, d_out, call, returned, now, monitor, exporter_monitor, ssh, ssh_hist, local_net, remote_net,
                   last_net, last_cmp, switched, observed>>

\* the snapshot file is removed from the working directory
DeleteSnapshotFile ==
    /\ file.exists
    /\ file' = NoFile
    /\ last_saved' = None
    /\ UNCHANGED <<d_old, d_new, d_out, call, returned, now, monitor, exporter_monitor, ssh, ssh_hist, local_net, remote_net,
                   last_net, last_cmp, switched, observed>>

DiffIdle ==
    /\ d_old = <<>>
    /\ d_new = <<>>
    /\ d_out = <<>>

\* no function has been applied on its own
NoCall == [op |-> "none"]

CallIdle ==
    /\ call = NoCall
    /\ returned = None

(***************************************************************************)
(* Spec: the snapshot cycle of the application: compare requests, exports, *)
(* connection changes, the clock and what can happen to the snapshot file. *)
(* The network counters do not move here, so that two snapshots can agree  *)
(* on the network sample.                                                  *)
(***************************************************************************)
QuietCounters == { [bytes_sent |-> 0, bytes_recv |-> 0] }

QuietHosts == {"hostA"}

\* the connects made where the snapshots are followed
MaxQuietConnects == 1

\* connects that succeed, to a server that keeps its key
QuietOutcomes == {"ok"}

\* connects that succeed or are refused
NetOutcomes == {"ok", "auth"}

QuietKeys == {"k1"}

Init ==
    /\ AppInit
    /\ local_net.net_io_start \in QuietCounters
    /\ DiffIdle
    /\ CallIdle

Next ==
    \/ Tick
    \/ ClockStepBack
    \/ ConnectRemote(QuietHosts, QuietOutcomes, QuietKeys, MaxQuietConnects)
    \/ DisconnectRemote
    \/ LoadComparisonData(Readings, QuietCounters)
    \/ ExportToPdf(Readings, QuietCounters)
    \/ CorruptSnapshotFile
    \/ DeleteSnapshotFile

Spec == Init /\ [][Next]_vars

(***************************************************************************)
(* SpecNet: the rate trackers under the dashboard loop and the connection  *)
(* changes.                                                                *)
(***************************************************************************)
InitNet ==
    /\ AppInit
    /\ DiffIdle
    /\ CallIdle

NextNet ==
    \/ Tick
    \/ ClockStepBack
    \/ UpdateDashboardLocal(NetCounters)
    \/ UpdateDashboardRemote(NetResponses)
    \/ ConnectRemote(Hosts, NetOutcomes, QuietKeys, MaxConnects)
    \/ DisconnectRemote

SpecNet == InitNet /\ [][NextNet]_vars

(***************************************************************************)
(* SpecDiff: _compare_snapshots on pairs of dicts drawn from a bounded     *)
(* set: every dict over a subset of three of the snapshot keys.            *)
(***************************************************************************)
DiffKeys == {"cpu", "disk", "timestamp"}

\* the timestamps of the dicts compared are 0..MaxDiffTime
MaxDiffTime == 1

DiffSnapshots ==
    { [k \in K |-> [cpu |-> c, disk |-> d, timestamp |-> t][k]] :
        K \in SUBSET DiffKeys, c \in CpuReadings, d \in DiskReadings, t \in 0..MaxDiffTime }

InitDiff ==
    /\ AppInit
    /\ local_net.net_io_start \in QuietCounters
    /\ d_old \in DiffSnapshots
    /\ d_new \in DiffSnapshots
    /\ d_out = None
    /\ CallIdle

ApplyDiff ==
    /\ d_out = None
    /\ d_out' = Some(CompareSnapshots(d_old, d_new))
    /\ UNCHANGED <<d_old, d_new>>
    /\ UNCHANGED appVars
    /\ UNCHANGED callVars

SpecDiff == InitDiff /\ [][ApplyDiff]_vars

(***************************************************************************)
(* SpecSSH: commands and remote getters on the connection manager, under   *)
(* connects to one host that end in every way and disconnects.             *)
(***************************************************************************)
\* what a command can find on stdout and on stderr
StdoutTexts ==
    { <<>>, <<Blank>>, <<IntTok(50)>>, <<Blank, IntTok(50), Blank>>,
      <<IntTok(8), Blank, IntTok(4)>>, <<BadTok>> }

StderrTexts == { <<>>, <<Blank>>, <<BadTok>>, <<Blank, BadTok, Blank>> }

CommandResponses ==
    { Response(o, e) : o \in StdoutTexts, e \in StderrTexts } \cup {TransportFailure}

InitSSH ==
    /\ AppInit
    /\ local_net.net_io_start \in QuietCounters
    /\ DiffIdle
    /\ CallIdle

\* one call of a function of the manager or of the remote monitor on the
\* manager as it stands
CallOnSession(op, resp, value) ==
    /\ call' = [op |-> op, resp |-> resp, exec |-> execute_command(ssh, resp),
                is_remote |-> is_remote(ssh), connected |-> ssh.connected,
                client |-> ssh.client]
    /\ returned' = [raised |-> FALSE, value |-> value]
    /\ UNCHANGED appVars
    /\ UNCHANGED diffVars

CallExecuteCommand ==
    \E resp \in CommandResponses :
        CallOnSession("execute_command", resp, execute_command(ssh, resp))

CallRemoteGetCpuUsage ==
    \E resp \in CommandResponses :
        CallOnSession("get_cpu_usage", resp, [cpu |-> RemoteGetCpuUsage(ssh, resp)])

\* the lines the process command can print: a pid, a name, a cpu and a
\* memory figure, a status or none, with a word in the place of the pid or of
\* a figure; and a line of three words
ProcessLine(pid, cpu, mem, st) == <<pid, Blank, BadTok, Blank, cpu, Blank, mem>> \o st

ProcessLines ==
    UNION { { ProcessLine(pid, DecTok(15), DecTok(5), st) : pid \in {IntTok(7), BadTok} }
            \cup { ProcessLine(IntTok(7), cpu, DecTok(5), st) : cpu \in {IntTok(3), BadTok, DotsTok} }
            \cup { ProcessLine(IntTok(7), DecTok(15), mem, st) : mem \in {BadTok, DotsTok} } :
            st \in {<<>>, <<Blank, BadTok>>} }
        \cup { <<IntTok(7), Blank, BadTok, Blank, DecTok(15)>> }

\* the lines that follow the first
MoreProcessLines ==
    { <<>>,
      <<Newline, IntTok(8), Blank, BadTok, Blank, BadTok, Blank, DecTok(5), Blank, BadTok>>,
      <<Newline, Newline, IntTok(8), Blank, BadTok, Blank, DecTok(15), Blank, DotsTok>> }

ProcessResponses ==
    { Response(l \o m \o <<Newline>>, <<>>) : l \in ProcessLines, m \in MoreProcessLines }
        \cup {TransportFailure}

CallRemoteGetProcesses ==
    \E resp \in ProcessResponses :
        CallOnSession("get_processes", resp, [processes |-> RemoteGetProcesses(ssh, resp)])

\* what the memory command can print, in units of 10^9 bytes: total, used,
\* free and a fourth figure; a total of 0; fewer figures; a word among them
MemoryTexts ==
    { <<IntTok(16), Blank, IntTok(8), Blank, IntTok(8), Blank, IntTok(8)>>,
      <<IntTok(0), Blank, IntTok(0), Blank, IntTok(0), Blank, IntTok(0)>>,
      <<IntTok(0), Blank, IntTok(8), Blank, IntTok(8), Blank, BadTok>>,
      <<IntTok(0)>>,
      <<IntTok(3), Blank, IntTok(1)>>,
      <<IntTok(0), Blank, BadTok>>,
      <<IntTok(8), Blank, IntTok(4), Blank, BadTok>> }

MemoryResponses == { Response(o, <<>>) : o \in MemoryTexts }

CallRemoteGetMemoryInfo ==
    \E resp \in CommandResponses \cup MemoryResponses :
        CallOnSession("get_memory_info", resp, RemoteGetMemoryInfo(ssh, resp))

NextSSH ==
    \/ ConnectRemote(QuietHosts, ConnectOutcomes, QuietKeys, MaxConnects)
    \/ DisconnectRemote
    \/ CallExecuteCommand
    \/ CallRemoteGetCpuUsage
    \/ CallRemoteGetMemoryInfo
    \/ CallRemoteGetProcesses

SpecSSH == InitSSH /\ [][NextSSH]_vars

(***************************************************************************)
(* SpecLog: the connection log, the host keys and the sessions under       *)
(* connects to two hosts that end in every way and disconnects, started    *)
(* fresh or after a run of successful connects that has nearly filled the  *)
(* connection log.                                                         *)
(***************************************************************************)
\* the manager after n successful connects to hostA, whose key stays k1:
\* each has logged connection_attempt and connection_success
AfterConnects(n) ==
    IF n = 0 THEN SSHInit
    ELSE [client |-> <<[host |-> "hostA", open |-> TRUE]>>, connected |-> TRUE,
          host |-> "hostA", connection_type |-> "remote",
          host_keys |-> ("hostA" :> KeyHash("k1")),
          connection_log |->
              [i \in 1..(2 * n) |->
                  [event |-> IF i % 2 = 1 THEN "connection_attempt"
                             ELSE "connection_success",
                   details |-> "hostA"]],
          known_hosts |-> <<>>]

\* what the system's known_hosts file holds: nothing, or hostA with the key
\* it has presented so far
KnownHostsFiles == {<<>>, ("hostA" :> "k1")}

\* the numbers of connects made before the run that is followed
PriorConnects == {0, 49}

InitLog ==
    /\ now = 0
    /\ file = NoFile
    /\ exporter_monitor = "local"
    /\ \E n \in PriorConnects, known_hosts \in KnownHostsFiles :
          /\ ssh = [AfterConnects(n) EXCEPT !.known_hosts = known_hosts]
          /\ ssh_hist = [SshHistInit EXCEPT !.full_log = AfterConnects(n).connection_log]
          /\ monitor = IF n > 0 THEN "remote" ELSE "local"
          /\ switched = (n > 0)
    /\ local_net = SystemMonitorInit([bytes_sent |-> 0, bytes_recv |-> 0], 0)
    /\ remote_net = RemoteMonitorInit
    /\ last_net = NoNet
    /\ last_cmp = NoCmp
    /\ last_saved = None
    /\ observed = [m \in {"local", "remote"} |-> FALSE]
    /\ DiffIdle
    /\ CallIdle

NextLog ==
    \/ ConnectRemote(Hosts, ConnectOutcomes, ServerKeys, MaxConnects)
    \/ DisconnectRemote

SpecLog == InitLog /\ [][NextLog]_vars

(***************************************************************************)
(* SpecCalls: functions applied on their own to arguments drawn from       *)
(* bounded sets; call holds the arguments, returned the result.  Each      *)
(* behaviour makes one call.                                               *)
(***************************************************************************)
InitCalls ==
    /\ AppInit
    /\ local_net.net_io_start \in QuietCounters
    /\ DiffIdle
    /\ CallIdle

\* PDFExporter._get_snapshot around either monitor
CallGetSnapshot ==
    \E mon \in {"local", "remote"}, r \in Readings, c \in NetCounters, t \in 0..MaxTime :
        /\ call = NoCall
        /\ call' = [op |-> "_get_snapshot", monitor |-> mon, reading |-> r,
                    counters |-> c, t |-> t]
        /\ returned' = GetSnapshot(mon, r, c, local_net, t)
        /\ UNCHANGED appVars
        /\ UNCHANGED diffVars

\* the CPU percentages compared: changes of 10, of 11 and of more either
\* way, current values of 80, of 81 and of more
CpuPercents == {29, 40, 45, 50, 51, 80, 81, 85}

CpuDiffs ==
    { ("cpu" :> [old |-> o, new |-> n]) :
          o \in {None} \cup { Some(v) : v \in CpuPercents }, n \in CpuPercents }

\* the disks compared: two mountpoints, a use that grows by 5 and by 6, a
\* fill of 85 and of 86 per cent
Mountpoints == {"/", "/data"}

DiskStates ==
    { Disk(m, u[1], u[2]) : m \in Mountpoints,
                            u \in { <<100, 50>>, <<105, 85>>, <<106, 86>>, <<100, 86>> } }

MaxDisks == 2

DiskLists == UNION { [1..n -> DiskStates] : n \in 0..MaxDisks }

DiskDiffs ==
    { ("disk" :> [old |-> o, new |-> n]) :
          o \in {None} \cup { Some(l) : l \in DiskLists }, n \in DiskLists }

\* a CPU entry and a disk entry together
MixedDiffs ==
    { ("cpu" :> [old |-> Some(40), new |-> n]) @@
      ("disk" :> [old |-> Some(<<Disk("/", 100, 50)>>), new |-> <<d>>]) :
          n \in {45, 85}, d \in DiskStates }

\* the battery levels compared: changes of 10 and of 11 either way, levels
\* of 19 and of 20; a machine without a battery reports 0 per cent
BatteryStates ==
    { [present |-> TRUE, percent |-> v] : v \in {9, 19, 20, 30, 31} }
        \cup { [present |-> FALSE, percent |-> 0] }

BatteryDiffs ==
    { ("battery" :> [old |-> o, new |-> n]) :
          o \in {None} \cup { Some(b) : b \in BatteryStates }, n \in BatteryStates }

\* the scan results compared: scores that differ by 1 and by more, around
\* 70, and counts of open ports that differ under the same score
SecurityStates ==
    { [security_score |-> v, open_ports |-> n] : v \in {60, 69, 70, 90}, n \in {2, 3} }

SecurityDiffs ==
    { ("security" :> [old |-> o, new |-> n]) :
          o \in {None} \cup { Some(x) : x \in SecurityStates }, n \in SecurityStates }

MemoryStates == { [percent |-> 50, used_gb |-> 8], [percent |-> 56, used_gb |-> 9],
                  [percent |-> 86, used_gb |-> 14] }

MemoryDiffs ==
    { ("memory" :> [old |-> o, new |-> n]) :
          o \in {None} \cup { Some(x) : x \in MemoryStates }, n \in MemoryStates }

\* the diffs of two snapshots: no entry for a key whose samples are equal
Changed(diffs) ==
    \A k \in DOMAIN diffs : diffs[k].old # Some(diffs[k].new)

SummaryDiffs ==
    { diffs \in CpuDiffs \cup DiskDiffs \cup MixedDiffs \cup BatteryDiffs
                 \cup SecurityDiffs \cup MemoryDiffs : Changed(diffs) }

\* display_overall_summary(diffs)
CallDisplayOverallSummary ==
    \E diffs \in SummaryDiffs :
        /\ call = NoCall
        /\ call' = [op |-> "display_overall_summary", diffs |-> diffs]
        /\ returned' = [raised |-> FALSE, value |-> display_overall_summary(diffs)]
        /\ UNCHANGED appVars
        /\ UNCHANGED diffVars

\* display_comparison_summary(previous_snapshot, current_snapshot, diffs)
CallDisplayComparisonSummary ==
    \E diffs \in SummaryDiffs :
        /\ call = NoCall
        /\ call' = [op |-> "display_comparison_summary", diffs |-> diffs]
        /\ returned' = [raised |-> FALSE, value |-> display_comparison_summary(diffs)]
        /\ UNCHANGED appVars
        /\ UNCHANGED diffVars

\* PDFExporter._add_overall_summary(pdf, diffs)
CallAddOverallSummary ==
    \E diffs \in SummaryDiffs \cup {<<>>} :
        /\ call = NoCall
        /\ call' = [op |-> "_add_overall_summary", diffs |-> diffs]
        /\ returned' = add_overall_summary(diffs)
        /\ UNCHANGED appVars
        /\ UNCHANGED diffVars

NextCalls ==
    \/ CallGetSnapshot
    \/ CallDisplayOverallSummary
    \/ CallDisplayComparisonSummary
    \/ CallAddOverallSummary

SpecCalls == InitCalls /\ [][NextCalls]_vars

\* C1: diff(old, new) holds exactly the keys of new that old lacks or maps to
\* an unequal value; the entry of a lacking key is {old: None, new: new[k]},
\* the entry of a changed key is {old: old[k], new: new[k]}; equal dicts give
\* the empty diff.
C1_DiffExact ==
    d_out # None =>
        LET d == d_out[1]
        IN  /\ DOMAIN d = { k \in DOMAIN d_new : k \notin DOMAIN d_old \/ d_old[k] # d_new[k] }
            /\ \A k \in DOMAIN d :
                  /\ d[k].new = d_new[k]
                  /\ k \notin DOMAIN d_old => d[k].old = None
                  /\ k \in DOMAIN d_old => d[k].old = Some(d_old[k])
            /\ (d_old = d_new => DOMAIN d = {})

\* a diff with a key new to old, a changed key and an omitted equal key; old
\* has a key that new lacks
C1_Witness ==
    /\ d_out # None
    /\ DOMAIN d_new = {"cpu", "disk", "timestamp"}
    /\ DOMAIN d_old = {"cpu", "disk"}
    /\ d_old["cpu"] = 30 /\ d_new["cpu"] = 90
    /\ d_old["disk"] = d_new["disk"]
    /\ DOMAIN d_out[1] = {"cpu", "timestamp"}

(***************************************************************************)
(* The rate trackers (SpecNet).  last_net is the record of the last        *)
(* get_network_activity call: the tracker state it found, the time and     *)
(* the result.                                                             *)
(***************************************************************************)
HasBaseline ==
    \/ last_net.mon = "local"
    \/ /\ last_net.mon = "remote"
       /\ last_net.before.net_io_start # <<>>
       /\ last_net.before.last_check_time # <<>>

BaseSent ==
    IF last_net.mon = "local" THEN last_net.before.net_io_start.bytes_sent
    ELSE last_net.before.net_io_start[2]

BaseRecv ==
    IF last_net.mon = "local" THEN last_net.before.net_io_start.bytes_recv
    ELSE last_net.before.net_io_start[1]

Elapsed ==
    IF last_net.mon = "local" THEN last_net.t - last_net.before.last_check_time
    ELSE last_net.t - last_net.before.last_check_time[1]

ZeroSpeeds ==
    /\ last_net.result.upload_speed = Zero
    /\ last_net.result.download_speed = Zero

\* q is the quotient a / b
IsQuotient(q, a, b) == q.den > 0 /\ q.num * b = a * q.den

\* the tracker of the monitor of last_net holds the counters and the time of
\* that observation
BaselineStored ==
    IF last_net.mon = "local"
    THEN local_net = [net_io_start |-> [bytes_sent |-> last_net.result.bytes_sent,
                                        bytes_recv |-> last_net.result.bytes_recv],
                      last_check_time |-> last_net.t]
    ELSE remote_net = [net_io_start |-> <<last_net.result.bytes_recv,
                                          last_net.result.bytes_sent>>,
                       last_check_time |-> <<last_net.t>>]

\* C3: after the target is switched the rate tracker of the monitor is empty,
\* and the first observation on the new target returns upload speed 0 and
\* download speed 0.
C3_SwitchResetsTracker ==
    /\ (switched /\ monitor = "remote") => remote_net = RemoteMonitorInit
    /\ (last_net.after_switch /\ last_net.ok) => ZeroSpeeds

\* C4 as stated: the first observation of a monitor, local or remote, returns
\* upload speed 0 and download speed 0 and stores the observed counters and
\* time as the baseline.
C4_FirstIsZero ==
    (last_net.first /\ last_net.ok) => (ZeroSpeeds /\ BaselineStored)

\* C4: the first observation of the remote monitor finds no baseline, returns
\* upload speed 0 and download speed 0 and stores the observed counters and
\* time; the local monitor takes its baseline when it is constructed, so its
\* first observation returns the rate since construction (0 only when no
\* time has passed) and stores the observed counters and time.
C4_FirstObservation ==
    (last_net.first /\ last_net.ok) =>
        /\ BaselineStored
        /\ last_net.mon = "remote" =>
              /\ last_net.before = RemoteMonitorInit
              /\ ZeroSpeeds
        /\ last_net.mon = "local" =>
              IF Elapsed > 0
              THEN /\ IsQuotient(last_net.result.upload_speed,
                                 last_net.result.bytes_sent - BaseSent, Elapsed)
                   /\ IsQuotient(last_net.result.download_speed,
                                 last_net.result.bytes_recv - BaseRecv, Elapsed)
              ELSE ZeroSpeeds

\* the remote monitor has made its first observation, of counters that are
\* not zero
C4_Witness ==
    /\ last_net.first
    /\ last_net.ok
    /\ last_net.mon = "remote"
    /\ last_net.result.bytes_sent = 2048
    /\ ZeroSpeeds
    /\ remote_net.net_io_start = <<4096, 2048>>

\* C5: an observation with a baseline and a positive elapsed time returns
\* upload speed (sent - baseline sent) / elapsed and download speed
\* (received - baseline received) / elapsed; 2 s, 2048 sent and 4096 received
\* give 1024 and 2048.
C5_RateFormula ==
    (last_net.ok /\ HasBaseline /\ Elapsed > 0) =>
        /\ IsQuotient(last_net.result.upload_speed,
                      last_net.result.bytes_sent - BaseSent, Elapsed)
        /\ IsQuotient(last_net.result.download_speed,
                      last_net.result.bytes_recv - BaseRecv, Elapsed)
        /\ ( /\ Elapsed = 2
             /\ last_net.result.bytes_sent - BaseSent = 2048
             /\ last_net.result.bytes_recv - BaseRecv = 4096 )
           => /\ last_net.result.upload_speed = [num |-> 1024, den |-> 1]
              /\ last_net.result.download_speed = [num |-> 2048, den |-> 1]

\* an observation 2 s after the baseline with 2048 sent and 4096 received
C5_Witness ==
    /\ last_net.ok
    /\ HasBaseline
    /\ Elapsed = 2
    /\ last_net.result.bytes_sent - BaseSent = 2048
    /\ last_net.result.bytes_recv - BaseRecv = 4096
    /\ last_net.result.upload_speed = [num |-> 1024, den |-> 1]

(***************************************************************************)
(* The snapshot cycle (Spec).                                              *)
(***************************************************************************)
MetricKeys == {SnapshotKeys[i] : i \in DOMAIN SnapshotKeys} \ {"timestamp"}

\* the last handler was a compare request that loaded a previous snapshot
\* and computed the diff
ComparedWithPrevious ==
    /\ last_cmp.op = "compare"
    /\ last_cmp.load.called
    /\ ~last_cmp.load.raised
    /\ last_cmp.built # None
    /\ ~Falsy(last_cmp.previous)

\* C2: snapshot A is persisted, snapshot B is built with the CPU gone from 30
\* to 90 and every other metric as in A; the compare request then yields
\* exactly one diff key (cpu), one issue for the increase and one high-usage
\* warning, and no positive.
C2_OneDiffKey ==
    ( /\ ComparedWithPrevious
      /\ last_cmp.outcome = "success"
      /\ last_cmp.previous[1]["cpu"] = 30
      /\ last_cmp.built[1]["cpu"] = 90
      /\ \A k \in MetricKeys \ {"cpu"} : last_cmp.previous[1][k] = last_cmp.built[1][k] )
    => /\ DOMAIN last_cmp.diffs = {"cpu"}
       /\ last_cmp.findings.issues = << <<"CPU usage increased by", 60>>,
                                        <<"CPU usage is high", 90>> >>
       /\ last_cmp.findings.positives = <<>>

\* C6: while the file written by the last save is in place, it holds the
\* members of one snapshot only, each key once, and loadPrevious returns the
\* argument of that save.
C6_LastSaveWins ==
    last_saved # None =>
        /\ file.exists
        /\ file.complete
        /\ \A i, j \in DOMAIN file.members :
              file.members[i][1] = file.members[j][1] => i = j
        /\ ~LoadPreviousSnapshot(file).raised
        /\ LoadPreviousSnapshot(file).ret = last_saved

\* a save has replaced a stored snapshot by a different one
C6_Witness ==
    /\ last_cmp.saved
    /\ ~Falsy(last_cmp.previous)
    /\ last_cmp.previous # last_cmp.built
    /\ last_saved = last_cmp.built
    /\ LoadPreviousSnapshot(file).ret # last_cmp.previous

\* C7: loadPrevious on a snapshot file that does not parse returns None and
\* does not raise, and the compare or report request goes on as without
\* history.
C7_CorruptIsNoHistory ==
    (last_cmp.load.called /\ last_cmp.load.existed /\ ~last_cmp.load.complete)
    => /\ ~last_cmp.load.raised
       /\ last_cmp.previous = None
       /\ last_cmp.op = "compare" => last_cmp.outcome = "baseline"

\* C8: loadPrevious without a snapshot file returns None, does not raise and
\* leaves the file as it is (it creates none).
C8_MissingIsNone ==
    (last_cmp.load.called /\ ~last_cmp.load.existed)
    => /\ ~last_cmp.load.raised
       /\ last_cmp.previous = None
       /\ ~last_cmp.load.touched
       /\ LoadPreviousSnapshot(NoFile).file = NoFile

\* a compare request has called loadPrevious with no file in place
C8_Witness ==
    /\ last_cmp.op = "compare"
    /\ last_cmp.load.called
    /\ ~last_cmp.load.existed
    /\ last_cmp.outcome = "baseline"

\* C9: a compare request made when no previous snapshot exists ends as the
\* informational baseline outcome, not as an error, and the snapshot it built
\* is the stored one afterwards.
C9_BaselineRecorded ==
    (last_cmp.op = "compare" /\ ~last_cmp.had_file)
    => /\ last_cmp.outcome = "baseline"
       /\ last_cmp.saved
       /\ LoadPreviousSnapshot(last_cmp.stored).ret = last_cmp.built

\* C10: after a compare request that loaded a previous snapshot and computed
\* the diff, the stored snapshot is the one built by that request.
C10_StoredIsBuilt ==
    ComparedWithPrevious
    => /\ ~LoadPreviousSnapshot(last_cmp.stored).raised
       /\ LoadPreviousSnapshot(last_cmp.stored).ret = last_cmp.built

(***************************************************************************)
(* Building a snapshot (SpecCalls).                                        *)
(***************************************************************************)
AllKeys == {SnapshotKeys[i] : i \in DOMAIN SnapshotKeys}

\* C11: when one metric collector raises, the snapshot is still built, with
\* every key present, and every metric whose collector did not raise holds
\* what its collector returned.
C11_BestEffortPerMetric ==
    ( /\ call.op = "_get_snapshot"
      /\ call.monitor = "local"
      /\ call.reading.raises # "none" )
    => /\ ~returned.raised
       /\ DOMAIN returned.snapshot[1] = AllKeys
       /\ \A k \in MetricKeys \ {"network", call.reading.raises} :
             returned.snapshot[1][k] = call.reading[k]

\* C12: a snapshot is built with either monitor, the local and the remote
\* one, and has the same key set with both.
C12_EitherCollector ==
    ( /\ call.op = "_get_snapshot"
      /\ call.reading.raises = "none" )
    => /\ MonitorCalls \subseteq MethodsOf(call.monitor)
       /\ ~returned.raised
       /\ DOMAIN returned.snapshot[1] = AllKeys

(***************************************************************************)
(* Commands on the session (SpecSSH).                                      *)
(***************************************************************************)
\* the call met no session (is_remote or execute_command said so) or a
\* channel that failed
ConnectionLevelError ==
    \/ ~call.is_remote
    \/ call.exec.error = <<NotConnectedError>>
    \/ call.exec.error = <<CommandExecutionError>>

\* C13: a remote getter that meets a connection-level error surfaces it as
\* an error and does not return the zero or empty value of a parse failure.
C13_ConnectionErrorSurfaces ==
    ( /\ call.op \in {"get_cpu_usage", "get_memory_info"}
      /\ ConnectionLevelError )
    => /\ returned.raised
       /\ returned.value # [cpu |-> 0]
       /\ returned.value # EmptyDict

\* C14: execute_command without a session (connected is false or there is
\* no client) returns the not-connected error, no output, and does not call
\* exec_command.
C14_NotConnected ==
    ( /\ call.op = "execute_command"
      /\ ~call.connected \/ call.client = <<>> )
    => /\ returned.value.output = None
       /\ returned.value.error = <<NotConnectedError>>
       /\ ~returned.value.issued

\* execute_command was called after a refused connect: there is a client,
\* and connected is false
C14_Witness ==
    /\ call.op = "execute_command"
    /\ ~call.connected
    /\ call.client # <<>>
    /\ returned.value.error = <<NotConnectedError>>
    /\ ~returned.value.issued

\* the command ran on an open session and the channel held
RanOnOpenSession ==
    /\ call.op = "execute_command"
    /\ call.connected
    /\ call.client # <<>>
    /\ call.client[1].open
    /\ ~call.resp.raises

AllBlank(text, from, to) == \A k \in from..to : text[k] = Blank

\* text is raw without the white space at its two ends
IsStripOf(text, raw) ==
    /\ text # <<>> => (text[1] # Blank /\ text[Len(text)] # Blank)
    /\ \E i \in 0..Len(raw) :
          /\ i + Len(text) <= Len(raw)
          /\ AllBlank(raw, 1, i)
          /\ SubSeq(raw, i + 1, i + Len(text)) = text
          /\ AllBlank(raw, i + Len(text) + 1, Len(raw))

\* text is raw without the white space at its end
IsRightStripOf(text, raw) ==
    /\ text # <<>> => text[Len(text)] # Blank
    /\ Len(text) <= Len(raw)
    /\ SubSeq(raw, 1, Len(text)) = text
    /\ AllBlank(raw, Len(text) + 1, Len(raw))

\* C15 as stated: anything on stderr makes the result a failure carrying
\* that text and no output; otherwise the result is stdout without its
\* trailing white space, and no error.
C15_StderrFailsTrailingTrim ==
    RanOnOpenSession =>
        IF call.resp.stderr # <<>>
        THEN /\ returned.value.output = None
             /\ returned.value.error # None
             /\ returned.value.error[1].kind = "stderr"
        ELSE /\ returned.value.error = None
             /\ returned.value.output # None
             /\ IsRightStripOf(returned.value.output[1], call.resp.stdout)

\* C15: stderr that holds more than white space makes the result a failure
\* carrying stderr stripped at both ends and no output, whatever stdout
\* holds; otherwise the result is stdout stripped at both ends, and no error.
C15_StderrFailsStrip ==
    RanOnOpenSession =>
        IF \E k \in DOMAIN call.resp.stderr : call.resp.stderr[k] # Blank
        THEN /\ returned.value.output = None
             /\ returned.value.error # None
             /\ returned.value.error[1].kind = "stderr"
             /\ IsStripOf(returned.value.error[1].text, call.resp.stderr)
        ELSE /\ returned.value.error = None
             /\ returned.value.output # None
             /\ IsStripOf(returned.value.output[1], call.resp.stdout)

\* a command wrote to both streams, with white space around both texts
C15_Witness ==
    /\ RanOnOpenSession
    /\ call.resp.stdout = <<Blank, IntTok(50), Blank>>
    /\ call.resp.stderr = <<Blank, BadTok, Blank>>
    /\ returned.value.output = None
    /\ returned.value.error = <<StderrError(<<BadTok>>)>>

(***************************************************************************)
(* Sessions, the connection log and the host keys (SpecLog)                *)
(***************************************************************************)
\* C16: a connect performed while a session is open closes the old session
\* before work goes on with the new one: no open session is left that the
\* manager no longer refers to.
C16_PreviousSessionTornDown == ssh_hist.unreferenced = {}

\* the last n entries of a sequence
LastEntries(log, n) == SubSeq(log, Len(log) - n + 1, Len(log))

\* the event with which a connect that ended as result closes its logging
ClosingEvent(result) ==
    IF result = "ok" THEN "connection_success"
    ELSE IF result = "auth" THEN "authentication_failed"
    ELSE IF result = "ssh" THEN "connection_failed"
    ELSE "connection_error"

\* the entries the last connect appended, as far as the log still holds them
AppendedByLast ==
    LET n == Len(ssh_hist.full_log) - ssh_hist.logged_before
    IN  IF n <= Len(ssh.connection_log) THEN LastEntries(ssh.connection_log, n)
        ELSE ssh.connection_log

\* C17: the connection log holds at most 100 entries, which are the most
\* recently appended events in the order they were appended; every connect
\* appends an attempt entry and an entry for the way it ended
\* (success, authentication failure, connection failure or error).
C17_BoundedRecentLog ==
    /\ Len(ssh.connection_log) <= LogCapacity
    /\ Len(ssh.connection_log) =
           IF Len(ssh_hist.full_log) < LogCapacity
           THEN Len(ssh_hist.full_log) ELSE LogCapacity
    /\ ssh.connection_log = LastEntries(ssh_hist.full_log, Len(ssh.connection_log))
    /\ ssh_hist.last.result # "none"
       => /\ Len(AppendedByLast) >= 2
          /\ AppendedByLast[1] =
                 [event |-> "connection_attempt", details |-> ssh_hist.last.host]
          /\ AppendedByLast[Len(AppendedByLast)] =
                 [event |-> ClosingEvent(ssh_hist.last.result),
                  details |-> ssh_hist.last.host]

\* a failed authentication was logged while the log was full: the oldest
\* entries have gone
C17_Witness ==
    /\ Len(ssh_hist.full_log) > LogCapacity
    /\ Len(ssh.connection_log) = LogCapacity
    /\ ssh_hist.last.result = "auth"
    /\ ssh.connection_log[LogCapacity].event = "authentication_failed"

\* the security warning the last connect logged, if any
WarnedByLast ==
    \E i \in 1..Len(AppendedByLast) : AppendedByLast[i].event = "security_warning"

\* C18: host keys are trusted on first use.  A connect that the server
\* accepts, to a host with no recorded digest, records the digest of its
\* key; to a host whose recorded digest differs from the key's, it logs a
\* security warning and still leaves the manager connected to the host; to
\* a host whose recorded digest is the key's, it logs no warning.
C18_TrustOnFirstUse ==
    ssh_hist.last.outcome = "ok"
    => LET l == ssh_hist.last
       IN  /\ ~l.known /\ l.result = "ok"
              => /\ l.host \in DOMAIN l.host_keys
                 /\ l.host_keys[l.host] = KeyHash(l.key)
           /\ l.known /\ l.recorded # <<KeyHash(l.key)>>
              => /\ WarnedByLast
                 /\ l.result = "ok"
                 /\ l.connected
                 /\ l.connected_to = l.host
           /\ l.known /\ l.recorded = <<KeyHash(l.key)>>
              => ~WarnedByLast

(***************************************************************************)
(* The summary of a comparison (SpecCalls)                                 *)
(***************************************************************************)
Summarised == call.op = "display_overall_summary"

\* the CPU entry of the diff that was summarised, when it has an old value
CpuCompared ==
    /\ Summarised
    /\ "cpu" \in DOMAIN call.diffs
    /\ call.diffs["cpu"].old # None

CpuDelta == call.diffs["cpu"].new - call.diffs["cpu"].old[1]

\* the summary lists a finding of this kind about this value
Listed(findings, kind, value) ==
    \E i \in 1..Len(findings) :
        /\ findings[i][1] = kind
        /\ findings[i][Len(findings[i])] = value

ListedKind(findings, kind) ==
    \E i \in 1..Len(findings) : findings[i][1] = kind

\* the summary lists the change of the CPU usage as an issue
CpuChangeIssue ==
    \/ ListedKind(returned.value.issues, "CPU usage increased by")
    \/ ListedKind(returned.value.issues, "CPU usage decreased by")

CpuHighIssue ==
    Listed(returned.value.issues, "CPU usage is high", call.diffs["cpu"].new)

\* C19 as stated: a CPU entry is flagged as an issue whenever |new - old| > 10,
\* in either direction, and as high whenever new > 80; {old: 40, new: 85}
\* gives both and {old: 40, new: 45} neither.
C19_ChangeEitherWayIsIssue ==
    CpuCompared
    => /\ Abs(CpuDelta) > 10 <=> CpuChangeIssue
       /\ call.diffs["cpu"].new > 80 <=> CpuHighIssue

\* C19: a CPU entry is flagged as an issue exactly when new - old > 10 and as
\* a positive change exactly when old - new > 10, never as both; it is
\* flagged as high exactly when new > 80; {old: 40, new: 85} gives the issue
\* and the high flag, {old: 40, new: 45} gives no finding at all.
C19_RiseIsIssueFallIsPositive ==
    CpuCompared
    => /\ CpuDelta > 10
          <=> Listed(returned.value.issues, "CPU usage increased by", CpuDelta)
       /\ CpuDelta < -10
          <=> Listed(returned.value.positives, "CPU usage decreased by", -CpuDelta)
       /\ CpuDelta <= 10 => ~CpuChangeIssue
       /\ CpuDelta >= -10 => ~ListedKind(returned.value.positives, "CPU usage decreased by")
       /\ call.diffs["cpu"].new > 80 <=> CpuHighIssue
       /\ call.diffs = ("cpu" :> [old |-> Some(40), new |-> 85])
          => /\ returned.value.issues =
                    << <<"CPU usage increased by", 45>>, <<"CPU usage is high", 85>> >>
             /\ returned.value.positives = <<>>
       /\ call.diffs = ("cpu" :> [old |-> Some(40), new |-> 45])
          => returned.value = NoFindings

\* a fall of 11: a positive change and no issue
C19_Witness ==
    /\ CpuCompared
    /\ call.diffs = ("cpu" :> [old |-> Some(40), new |-> 29])
    /\ returned.value.issues = <<>>
    /\ returned.value.positives = << <<"CPU usage decreased by", 11>> >>

\* the disk entry of the diff that was summarised, when it has an old value
DiskCompared ==
    /\ Summarised
    /\ "disk" \in DOMAIN call.diffs
    /\ call.diffs["disk"].old # None

OldDisks == call.diffs["disk"].old[1]

NewDisks == call.diffs["disk"].new

\* the indices present in both lists
PairedIndices == { i \in 1..Len(NewDisks) : i <= Len(OldDisks) }

GrewAt == { i \in PairedIndices : NewDisks[i].used_gb - OldDisks[i].used_gb > 5 }

LowAt == { i \in PairedIndices : NewDisks[i].percent > 85 }

DiskIssues ==
    { i \in 1..Len(returned.value.issues) :
          returned.value.issues[i][1] \in {"Disk increased by", "Disk low on space"} }

\* C20: the disks of a disk entry are paired by list index, not by
\* mountpoint: for every index in both lists an issue is flagged iff the new
\* disk at the index uses over 5 GB more than the old disk at the index, and
\* a critical fill iff the new disk at the index is over 85 per cent full;
\* a new disk at an index beyond the end of the old list gives no finding.
C20_DisksPairedByIndex ==
    DiskCompared
    => /\ \A i \in PairedIndices :
             /\ i \in GrewAt
                => \E j \in DiskIssues :
                      returned.value.issues[j] =
                          <<"Disk increased by", NewDisks[i].mountpoint,
                            NewDisks[i].used_gb - OldDisks[i].used_gb>>
             /\ i \in LowAt
                => \E j \in DiskIssues :
                      returned.value.issues[j] =
                          <<"Disk low on space", NewDisks[i].mountpoint, NewDisks[i].percent>>
       /\ Cardinality(DiskIssues) = Cardinality(GrewAt) + Cardinality(LowAt)
       /\ \A j \in DiskIssues :
             \E i \in PairedIndices :
                 /\ returned.value.issues[j][2] = NewDisks[i].mountpoint
                 /\ \/ /\ i \in GrewAt
                       /\ returned.value.issues[j][1] = "Disk increased by"
                       /\ returned.value.issues[j][3] =
                              NewDisks[i].used_gb - OldDisks[i].used_gb
                    \/ /\ i \in LowAt
                       /\ returned.value.issues[j][1] = "Disk low on space"
                       /\ returned.value.issues[j][3] = NewDisks[i].percent

\* the mountpoints have changed places and a full disk has been added: the
\* growth is found against the disk of the other mountpoint, and the added
\* disk is passed over
C20_Witness ==
    /\ DiskCompared
    /\ OldDisks = <<Disk("/data", 100, 50)>>
    /\ NewDisks = <<Disk("/", 106, 86), Disk("/data", 106, 86)>>
    /\ returned.value.issues =
           << <<"Disk increased by", "/", 6>>, <<"Disk low on space", "/", 86>> >>

(***************************************************************************)
(* Battery and security in the summaries (SpecCalls)                       *)
(***************************************************************************)
SummaryOps ==
    {"display_overall_summary", "display_comparison_summary", "_add_overall_summary"}

\* everything the summary that was called has listed
AllListed ==
    IF call.op = "display_overall_summary"
    THEN returned.value.issues \o returned.value.positives \o returned.value.recommendations
    ELSE IF call.op = "display_comparison_summary"
    THEN returned.value.warnings
    ELSE returned.value.summary_points \o returned.value.recommendations

\* the battery entry of the diff that was summarised, when it has an old value
BatteryCompared ==
    /\ call.op \in SummaryOps
    /\ "battery" \in DOMAIN call.diffs
    /\ call.diffs["battery"].old # None

BatteryDelta == call.diffs["battery"].new.percent - call.diffs["battery"].old[1].percent

BatteryChangeFlagged ==
    \/ ListedKind(AllListed, "Battery charged by")
    \/ ListedKind(AllListed, "Battery discharged by")

LowBatteryWarned == ListedKind(AllListed, "Low battery level")

\* C21 as stated: the summary of a battery entry flags the change whenever
\* |new.percent - old.percent| > 10 and warns whenever new.percent < 20.
C21_BatteryIssueAndWarning ==
    BatteryCompared
    => /\ Abs(BatteryDelta) > 10 => BatteryChangeFlagged
       /\ call.diffs["battery"].new.percent < 20 => LowBatteryWarned

\* C21: the two battery rules are in two summaries.  The executive summary
\* of the report lists the change of the battery, as charged or discharged,
\* exactly when |new.percent - old.percent| > 10, and never warns of a low
\* level; the comparison summary on screen warns of a low level exactly when
\* new.percent < 20, and never flags the change; the overall summary on
\* screen (issues, recommendations, positives) lists nothing for a battery
\* entry.
C21_BatteryRulesByOutput ==
    BatteryCompared
    => /\ call.op = "_add_overall_summary"
          => /\ BatteryDelta > 10
                <=> Listed(returned.value.summary_points, "Battery charged by", BatteryDelta)
             /\ BatteryDelta < -10
                <=> Listed(returned.value.summary_points, "Battery discharged by",
                           -BatteryDelta)
             /\ Abs(BatteryDelta) <= 10 => ~BatteryChangeFlagged
             /\ ~LowBatteryWarned
       /\ call.op = "display_comparison_summary"
          => /\ call.diffs["battery"].new.percent < 20 <=> LowBatteryWarned
             /\ ~BatteryChangeFlagged
       /\ call.op = "display_overall_summary"
          => returned.value = NoFindings

\* a fall of 11 to 19 per cent, summarised on screen: the warning and no
\* flag for the change
C21_Witness ==
    /\ BatteryCompared
    /\ call.op = "display_comparison_summary"
    /\ call.diffs["battery"].old[1].percent = 30
    /\ call.diffs["battery"].new.percent = 19
    /\ returned.value.warnings = << <<"Low battery level">> >>

\* the security entry of the diff that the executive summary was made of
SecurityCompared ==
    /\ call.op = "_add_overall_summary"
    /\ "security" \in DOMAIN call.diffs
    /\ call.diffs["security"].old # None

SecurityDelta ==
    call.diffs["security"].new.security_score - call.diffs["security"].old[1].security_score

SecurityListed ==
    \/ ListedKind(AllListed, "Security score improved by")
    \/ ListedKind(AllListed, "Security score declined by")

GeneratedRecs ==
    Append3(Append3(CpuAnalysis(call.diffs), MemoryAnalysis(call.diffs)),
            DiskAnalysis(call.diffs)).recommendations

\* the index at which a recommendation was first appended
FirstAt(recs, rec) ==
    CHOOSE i \in 1..Len(recs) : recs[i] = rec /\ \A j \in 1..(i - 1) : recs[j] # rec

\* C23: the recommendations listed have no duplicate, are exactly the
\* distinct recommendations that were generated, and stand in the order of
\* their first occurrence.
C23_RecommendationsDeduplicated ==
    Summarised
    => LET out == returned.value.recommendations
           gen == GeneratedRecs
       IN  /\ \A i, j \in 1..Len(out) : i # j => out[i] # out[j]
           /\ \A i \in 1..Len(out) : \E j \in 1..Len(gen) : gen[j] = out[i]
           /\ \A j \in 1..Len(gen) : \E i \in 1..Len(out) : out[i] = gen[j]
           /\ \A i, j \in 1..Len(out) : i < j => FirstAt(gen, out[i]) < FirstAt(gen, out[j])

\* two disks of one mountpoint: the recommendation to free space is generated
\* for both and listed once, before the one generated between them
C23_Witness ==
    /\ Summarised
    /\ GeneratedRecs = << <<"Free up space immediately", "/">>,
                          <<"Clean up using Optimize tab", "/">>,
                          <<"Free up space immediately", "/">> >>
    /\ returned.value.recommendations = << <<"Free up space immediately", "/">>,
                                           <<"Clean up using Optimize tab", "/">> >>

(***************************************************************************)
(* The parsers of the remote monitor (SpecSSH)                             *)
(***************************************************************************)
\* get_processes was called on an open session that printed something
ProcessesParsed ==
    /\ call.op = "get_processes"
    /\ call.is_remote
    /\ Truthy(call.exec.output)

\* the lines of the output that was parsed
ParsedLines == split_lines(strip(call.exec.output[1]))

\* the lines with an integer pid and at least four words
WellFormedLines ==
    { i \in 1..Len(ParsedLines) :
          /\ Len(split(ParsedLines[i])) >= 4
          /\ split(ParsedLines[i])[1].isint }

\* the number of well-formed lines up to line i
RECURSIVE WellFormedUpTo(_)
WellFormedUpTo(i) ==
    IF i = 0 THEN 0
    ELSE WellFormedUpTo(i - 1) + (IF i \in WellFormedLines THEN 1 ELSE 0)

\* C24: get_processes drops no line because of its cpu or memory word: every
\* line with an integer pid and at least four words yields an entry, in
\* which a cpu or memory word that is no number is 0, and the status is
\* 'unknown' when there is no fifth word.
C24_NoLineDroppedForFigures ==
    ProcessesParsed
    => /\ Len(returned.value.processes) = Cardinality(WellFormedLines)
       /\ \A i \in WellFormedLines :
             LET parts == split(ParsedLines[i])
                 entry == returned.value.processes[WellFormedUpTo(i)]
             IN  /\ entry.pid = parts[1].val
                 /\ ~FloatAccepts(parts[3]) => entry.cpu_percent = Zero
                 /\ ~FloatAccepts(parts[4]) => entry.memory_percent = Zero
                 /\ Len(parts) = 4 => entry.status = <<"unknown">>

\* get_memory_info was called on an open session that printed something
MemoryParsed ==
    /\ call.op = "get_memory_info"
    /\ call.is_remote
    /\ Truthy(call.exec.output)

MemoryParts == split(call.exec.output[1])

\* the words int() is applied to are integers
MemoryFiguresRead ==
    \A i \in 1..Len(MemoryParts) : i <= 3 => MemoryParts[i].isint

C26_NoElapsedTime ==
    (last_net.ok /\ HasBaseline /\ Elapsed <= 0) => (ZeroSpeeds /\ BaselineStored)

\* the clock stepped back between the baseline and an observation of
\* counters that had moved on
C26_Witness ==
    /\ last_net.ok
    /\ HasBaseline
    /\ Elapsed < 0
    /\ last_net.result.bytes_sent # BaseSent
    /\ ZeroSpeeds
    /\ BaselineStored

\* the last call of the remote get_network_activity returned {}
RemoteObservationFailed ==
    /\ last_net.mon = "remote"
    /\ last_net.cause # "none"

\* C29: when the remote network command fails, prints nothing or prints
\* something that is not two integers, get_network_activity returns {} and
\* the tracker keeps the counters and the time it had, so the next
\* observation that succeeds is measured from the last one that did.
C29_FailureKeepsBaseline ==
    /\ (last_net.mon = "remote" /\ last_net.cause = "none") => last_net.ok
    /\ RemoteObservationFailed
       => /\ last_net.result = EmptyDict
          /\ remote_net = last_net.before

\* a tracker with a baseline met an output that is not two integers
C29_Witness ==
    /\ RemoteObservationFailed
    /\ last_net.cause = "parse"
    /\ last_net.before.net_io_start = <<4096, 2048>>
    /\ last_net.result = EmptyDict
    /\ remote_net = last_net.before

\* the held client is the session whose connect succeeded for the host the
\* manager records
HoldsAuthenticatedSession ==
    /\ ssh.client # <<>>
    /\ ssh.client[1].open
    /\ ssh.client[1].host = ssh.host

\* C27: after any connects, successful or failed, and disconnects,
\* connected = true implies that the held client is the session whose
\* connect succeeded for the recorded host; a connect that fails while a
\* session is open does not leave the manager connected with a client that
\* never authenticated.
C27_ConnectedHoldsSession ==
    ssh.connected => HoldsAuthenticatedSession

\* C28: at every compare request the snapshot is collected from the active
\* monitor: from the remote monitor after connect_remote has succeeded, from
\* the local monitor after disconnect_remote, whether or not an export was
\* made in between.
C28_CompareUsesActiveMonitor ==
    last_cmp.op = "compare" => last_cmp.source = last_cmp.active

\* a step of export_to_pdf in which generate_report built its snapshot and
\* read the snapshot file
ReportCycle ==
    /\ last_cmp' # last_cmp
    /\ last_cmp'.op = "export"
    /\ last_cmp'.built # None
    /\ ~last_cmp'.load.raised

\* C30: in every report generation the previous snapshot is loaded before
\* the current one is saved: the diff is between what the file held when the
\* handler began and the fresh snapshot, never between the fresh snapshot
\* and itself, and the file holds the fresh snapshot afterwards whether the
\* rendering went through or failed.
C30_LoadBeforeSave ==
    [][ ReportCycle
        => LET prior == LoadPreviousSnapshot(file).ret
               fresh == last_cmp'.built[1]
           IN  /\ last_cmp'.previous = prior
               /\ last_cmp'.diffs = IF Falsy(prior) THEN <<>>
                                    ELSE CompareSnapshots(prior[1], fresh)
               /\ last_cmp'.outcome \in {"exported", "error"}
               /\ last_cmp'.saved
               /\ file' = SaveSnapshot(file, fresh)
               /\ last_saved' = Some(fresh) ]_vars

\* a report whose rendering failed: the diff is against an older snapshot
\* that differs from the fresh one, and the file holds the fresh one
C30_Witness ==
    /\ last_cmp.op = "export"
    /\ last_cmp.outcome = "error"
    /\ last_cmp.saved
    /\ last_cmp.built # None
    /\ last_cmp.previous # None
    /\ last_cmp.previous # last_cmp.built
    /\ DOMAIN last_cmp.diffs # {}
    /\ file = SaveSnapshot(file, last_cmp.built[1])
    /\ last_saved = last_cmp.built

====
